---- MODULE Spec2Model ----
(***************************************************************************)
(* Model of the day-partitioned market-data store: the columnar writer     *)
(* (WriterT, block_codec.h), the columnar reader (ReaderT), the block      *)
(* codec (L2TBlockCodec) and the block writer / reader.                    *)
(*                                                                         *)
(* Files are modelled at byte level.  Sizes that cannot be enumerated      *)
(* (2^24 rows per hour, 2^26 queue slots, 10^9 ns per second) are scaled   *)
(* down; every scaled definition says so.  The local time zone used by     *)
(* date_string is taken to be UTC.                                         *)
(***************************************************************************)
EXTENDS Integers, Sequences, FiniteSets, TLC

(***************************************************************************)
(* Bounds of the model                                                     *)
(***************************************************************************)
\* number of enqueue() calls the producer makes
MaxRows == 5
\* number of system calls (mkdir/open/fallocate/mmap) that may fail
MaxFails == 2
\* number of rows in a batch handed to encode_block
MaxBatch == 2
\* number of calls made on the block writer
MaxBlockCalls == 5
\* blocks appended in a run of appends
MaxAppends == 6
\* number of entries in the directory the columnar reader lists
MaxDirEntries == 2
\* number of calls made on the columnar reader
MaxReaderCalls == 3
\* number of values handed to bitpack_u32 / bitpack_u64
MaxVals == 2
\* size in bytes of a day file cut short inside its header
ShortSize == 120

(***************************************************************************)
(* Program constants                                                       *)
(***************************************************************************)
\* L2Schema::COLS
COLS == 4
\* WriterT::HEADER_SZ
HEADER_SZ == 256
\* WriterOpt::rows_per_hr, scaled down from 1 << 24
rows_per_hr == 1
\* WriterT::kQueueCapacity, scaled down from 1 << 26
kQueueCapacity == 2
\* nanoseconds per second in hour_from_row, scaled down from 1'000'000'000
NS_PER_S == 10
\* seconds per hour in hour_from_row
SEC_PER_HOUR == 3600
\* seconds per day in day_from_hour
SEC_PER_DAY == 86400
\* two_mb in HugeBuff::alloc, scaled down from 2ull * 1024 * 1024
TWO_MB == 64
\* L2Schema::VERSION
VERSION == 1
\* L2Schema::MAGIC, the 6 bytes "L2COL\n"
MAGIC == "L2COL"
\* WriterOpt::product
Product == "P"
\* the values of WriterOpt::fsync_every_rows the model runs with
FsyncChoices == {0, 2}

\* nullptr
NULL == 0
\* day_start_{~0ull}
NoDay == -1

Cols == 0 .. (COLS - 1)

\* L2Schema::col_size
col_size(i) ==
    IF i = 0 THEN 8 ELSE IF i = 1 THEN 4 ELSE IF i = 2 THEN 4 ELSE 1

(***************************************************************************)
(* Bytes                                                                   *)
(***************************************************************************)
RECURSIVE LEBytes(_, _)
\* the w bytes of the unsigned value v, least significant first
LEBytes(v, w) ==
    IF w = 0 THEN << >> ELSE << v % 256 >> \o LEBytes(v \div 256, w - 1)

Zeros(n) == [k \in 1 .. n |-> 0]

\* the field of an L2Row stored in column c
FieldOf(r, c) ==
    IF c = 0 THEN r.ts_ns ELSE IF c = 1 THEN r.price
    ELSE IF c = 2 THEN r.qty ELSE r.side

(***************************************************************************)
(* Rows the producer enqueues: the k-th row carries k in its price and     *)
(* side, so that every enqueued row is distinct; its day is chosen.        *)
(* qty is the IEEE-754 bit pattern of the float.                           *)
(***************************************************************************)
DayChoices == {0, 1}

MkRow(k, day) ==
    [ts_ns |-> (day * SEC_PER_DAY + SEC_PER_HOUR) * NS_PER_S + k,
     price |-> 10000 + k,
     qty   |-> 1056964608 + k,
     side  |-> k % 2]

\* L2Schema::hour_from_row
hour_from_row(r) ==
    LET s == r.ts_ns \div NS_PER_S IN (s \div SEC_PER_HOUR) * SEC_PER_HOUR

\* WriterT::day_from_hour
day_from_hour(hour_s) == hour_s - (hour_s % SEC_PER_DAY)

\* WriterT::date_string: the civil date of epoch_s as the number yyyymmdd
date_string(epoch_s) ==
    LET z   == (epoch_s \div SEC_PER_DAY) + 719468
        era == z \div 146097
        doe == z - era * 146097
        yoe == (doe - doe \div 1460 + doe \div 36524 - doe \div 146096) \div 365
        doy == doe - (365 * yoe + yoe \div 4 - yoe \div 100)
        mp  == (5 * doy + 2) \div 153
        d   == doy - (153 * mp + 2) \div 5 + 1
        m   == IF mp < 10 THEN mp + 3 ELSE mp - 9
        y   == yoe + era * 400 + (IF m <= 2 THEN 1 ELSE 0)
    IN  y * 10000 + m * 100 + d

(***************************************************************************)
(* State                                                                   *)
(***************************************************************************)
VARIABLES
    \* WriterT fields
    fd_, base_, map_bytes_, hdr_, col_off_, col_sz_, col_ptrs_,
    rows_, dropped_, capacity_, day_start_, queue_, running_, stop_,
    fsync_every_rows,
    \* the worker thread: its position and the locals of run()
    pc, since_fsync, row, idx, rotated,
    \* the operating system: files of <base>/<product>, open descriptors,
    \* live mappings, number of system calls that may still fail
    files, fds, maps, may_fail,
    \* history: enqueue() calls made / accepted, rows stored, last iteration
    calls, accepted, wlog, last

wvars == << fd_, base_, map_bytes_, hdr_, col_off_, col_sz_, col_ptrs_,
            rows_, dropped_, capacity_, day_start_, queue_, running_, stop_,
            fsync_every_rows, pc, since_fsync, row, idx, rotated,
            files, fds, maps, may_fail, calls, accepted, wlog, last >>

VARIABLES
    \* the caller of the codec: the batch, the encoded bytes, the decoded
    \* rows, what decode_block returned or threw, the caller's position
    in_rows, enc_out, dec_rows, dec_ret, cpc,
    \* the magic check_magic compares with
    block_magic

cvars == << in_rows, enc_out, dec_rows, dec_ret, cpc, block_magic >>

VARIABLES
    \* the BlockWriterT, the files of <base>/<product>-BLOCKS, the number of
    \* its system calls that may still fail
    writer, bfiles, bfail,
    \* history: blocks appended, opens per day, files closed by close(),
    \* calls made, the last call, the begin_day and write_row calls made
    blog, bopens, bclosed, bcalls, blast, bhist,
    \* the BlockReaderT, the views its callback received, the caller's position
    br, views, bpc

bvars == << writer, bfiles, bfail, blog, bopens, bclosed, bcalls, blast, bhist,
            br, views, bpc >>

\* the columnar reader: the directory <base>/<product>, the ReaderT, its
\* stage, and what the last call returned
VARIABLES
    rdir,        \* [exists, entries]: the directory and its entries
    reader,      \* the fields of the ReaderT
    stage_,      \* Stage stage_, with the bytes of its slab
    rlast,       \* the last call on the reader and its results
    rcalls,      \* number of calls made on the reader
    rpc          \* "unused", "new", "ready", "crashed"

rvars == << rdir, reader, stage_, rlast, rcalls, rpc >>

\* the codec's bit functions called on their own
VARIABLES
    pk_in,       \* the arguments of the call
    pk_out,      \* the bytes packed and the values read back
    pkpc         \* "unused", "input", "packed", "unpacked", "decoded"

pvars == << pk_in, pk_out, pkpc >>

vars == << wvars, cvars, bvars, rvars, pvars >>

\* ColFileHeaderT zero-initialised
ZeroHdr ==
    [magic |-> "", header_size |-> 0, version |-> 0, product |-> "",
     hour_epoch_start |-> 0, rows |-> 0, capacity |-> 0,
     col_off |-> [i \in Cols |-> 0], col_sz |-> [i \in Cols |-> 0]]

NullPtr == [base |-> NULL, off |-> 0]

NoRow == [ts_ns |-> 0, price |-> 0, qty |-> 0, side |-> 0]

NoLast == [kind |-> "none", rot |-> FALSE, row |-> NoRow, idx |-> 0, name |-> 0]

\* the writer, the files and the kernel tables as one value
Cur ==
    [fd_ |-> fd_, base_ |-> base_, map_bytes_ |-> map_bytes_, hdr_ |-> hdr_,
     col_off_ |-> col_off_, col_sz_ |-> col_sz_, col_ptrs_ |-> col_ptrs_,
     rows_ |-> rows_, dropped_ |-> dropped_, capacity_ |-> capacity_,
     day_start_ |-> day_start_, files |-> files, fds |-> fds, maps |-> maps,
     may_fail |-> may_fail, ok |-> TRUE, ub |-> FALSE]

Install(s) ==
    /\ fd_' = s.fd_
    /\ base_' = s.base_
    /\ map_bytes_' = s.map_bytes_
    /\ hdr_' = s.hdr_
    /\ col_off_' = s.col_off_
    /\ col_sz_' = s.col_sz_
    /\ col_ptrs_' = s.col_ptrs_
    /\ rows_' = s.rows_
    /\ dropped_' = s.dropped_
    /\ capacity_' = s.capacity_
    /\ day_start_' = s.day_start_
    /\ files' = s.files
    /\ fds' = s.fds
    /\ maps' = s.maps
    /\ may_fail' = s.may_fail

(***************************************************************************)
(* The operating system                                                    *)
(***************************************************************************)
NewFile == [size |-> 0, hdr |-> ZeroHdr, body |-> << >>]

\* the file an open descriptor refers to
FdName(s, fd) == (CHOOSE e \in s.fds : e.fd = fd).name
FdOpen(s, fd) == \E e \in s.fds : e.fd = fd

\* open(2) returns the lowest descriptor not in use
LowestFd(s) == CHOOSE n \in 3 .. (3 + Cardinality(s.fds)) :
                  /\ ~ FdOpen(s, n)
                  /\ \A k \in 3 .. (n - 1) : FdOpen(s, k)

\* mmap(2) returns an address not in use
FreeAddr(s) == CHOOSE a \in 1 .. (1 + Cardinality(s.maps)) :
                  /\ \A e \in s.maps : e.addr # a
                  /\ \A k \in 1 .. (a - 1) : \E e \in s.maps : e.addr = k

IsMapped(s, addr) == \E e \in s.maps : e.addr = addr
MapOf(s, addr) == CHOOSE e \in s.maps : e.addr = addr

\* posix_fallocate(fd, 0, bytes): the file is at least bytes long afterwards
Fallocate(f, bytes) ==
    IF f.size >= bytes THEN f
    ELSE [f EXCEPT !.size = bytes,
                   !.body = f.body \o Zeros(bytes - HEADER_SZ - Len(f.body))]

\* the bytes bs stored at file offset off (off >= HEADER_SZ)
StoreBody(f, off, bs) ==
    [f EXCEPT !.body = [k \in 1 .. Len(f.body) |->
        IF k - 1 + HEADER_SZ >= off /\ k - 1 + HEADER_SZ < off + Len(bs)
        THEN bs[k + HEADER_SZ - off] ELSE f.body[k]]]

\* the w bytes of file f at offset off
LoadBody(f, off, w) == [k \in 1 .. w |-> f.body[off - HEADER_SZ + k]]

Munmap(s, addr) == [s EXCEPT !.maps = {e \in s.maps : e.addr # addr}]
Close(s, fd) == [s EXCEPT !.fds = {e \in s.fds : e.fd # fd}]


(***************************************************************************)
(* WriterT: the helpers of the worker                                      *)
(***************************************************************************)
RECURSIVE SumBelow(_, _)
\* f[0] + ... + f[i-1]
SumBelow(f, i) == IF i = 0 THEN 0 ELSE f[i - 1] + SumBelow(f, i - 1)

\* column offsets that take every column to be as wide as the first
ColOffsets_first_width(colsz) == [i \in Cols |-> HEADER_SZ + i * colsz[0]]

\* the loop "off = HEADER_SZ; col_off[i] = off; off += col_sz_[i]"
ColOffsets(colsz) == [i \in Cols |-> HEADER_SZ + SumBelow(colsz, i)]

ColWidths == [i \in Cols |-> col_size(i)]

\* WriterT::update_rows_in_header
update_rows_in_header(s) ==
    IF s.base_ = NULL THEN s
    ELSE LET h == [s.hdr_ EXCEPT !.rows = s.rows_] IN
         IF IsMapped(s, s.base_)
         THEN [s EXCEPT !.hdr_ = h, !.files[MapOf(s, s.base_).name].hdr = h]
         ELSE [s EXCEPT !.hdr_ = h, !.ub = TRUE]

\* WriterT::close_file
close_file(s) ==
    IF s.base_ = NULL THEN s
    ELSE LET s1 == Munmap(s, s.base_)
             s2 == IF s1.fd_ >= 0 THEN [Close(s1, s1.fd_) EXCEPT !.fd_ = -1]
                   ELSE s1
         IN  [s2 EXCEPT !.base_ = NULL, !.map_bytes_ = 0, !.rows_ = 0,
                        !.hdr_ = ZeroHdr,
                        !.col_off_ = [i \in Cols |-> 0],
                        !.col_sz_ = [i \in Cols |-> 0],
                        !.col_ptrs_ = [i \in Cols |-> NullPtr]]

\* WriterT::open_day_file; outcome names the system call that fails, or "ok"
open_day_file(s, day_s, outcome) ==
    LET cap   == rows_per_hr * 2
        colsz == [i \in Cols |-> cap * col_size(i)]
        bytes == HEADER_SZ + SumBelow(colsz, COLS)
        s1    == [s EXCEPT !.capacity_ = cap, !.col_sz_ = colsz]
        name  == date_string(day_s)
    IN
    IF outcome = "mkdir" THEN [s1 EXCEPT !.ok = FALSE, !.may_fail = @ - 1]
    ELSE IF outcome = "open"
    THEN [s1 EXCEPT !.fd_ = -1, !.ok = FALSE, !.may_fail = @ - 1]
    ELSE
    LET fd == LowestFd(s1)
        f0 == IF name \in DOMAIN s1.files THEN s1.files[name] ELSE NewFile
        s2 == [s1 EXCEPT !.fd_ = fd,
                         !.fds = @ \cup {[fd |-> fd, name |-> name]},
                         !.files = [n \in (DOMAIN s1.files) \cup {name} |->
                                      IF n = name THEN f0 ELSE s1.files[n]]]
    IN
    IF outcome = "fallocate"
    THEN [Close(s2, fd) EXCEPT !.fd_ = -1, !.ok = FALSE, !.may_fail = @ - 1]
    ELSE
    LET s3 == [s2 EXCEPT !.files[name] = Fallocate(@, bytes),
                         !.map_bytes_ = bytes]
    IN
    IF outcome = "mmap"
    THEN [Close(s3, fd) EXCEPT !.base_ = NULL, !.fd_ = -1, !.ok = FALSE,
                               !.may_fail = @ - 1]
    ELSE
    LET addr == FreeAddr(s3)
        offs == ColOffsets(colsz)
        h    == [magic |-> MAGIC, header_size |-> HEADER_SZ,
                 version |-> VERSION, product |-> Product,
                 hour_epoch_start |-> s3.day_start_, rows |-> 0,
                 capacity |-> cap, col_off |-> offs, col_sz |-> ColWidths]
    IN  [s3 EXCEPT !.base_ = addr,
                   !.maps = @ \cup {[addr |-> addr, name |-> name, len |-> bytes]},
                   !.hdr_ = h, !.col_off_ = offs,
                   !.files[name].hdr = h,
                   !.col_ptrs_ = [i \in Cols |-> [base |-> addr, off |-> offs[i]]],
                   !.rows_ = 0]

\* WriterT::rotate_to_day
rotate_to_day(s, day_s, outcome) ==
    IF s.day_start_ = day_s THEN s
    ELSE LET s1 == update_rows_in_header(s)
             s2 == close_file(s1)
             s3 == [s2 EXCEPT !.day_start_ = day_s]
         IN  open_day_file(s3, day_s, outcome)

\* WriterT::grow_file; outcome names the system call that fails, "ok", or
\* "ebadf" when fd_ is no open descriptor
grow_file(s, outcome) ==
    LET newcap == s.capacity_ * 2
        colsz  == [i \in Cols |-> newcap * col_size(i)]
        bytes  == HEADER_SZ + SumBelow(colsz, COLS)
        s1     == [Munmap(s, s.base_) EXCEPT !.col_sz_ = colsz]
    IN
    IF outcome = "ebadf" THEN [s1 EXCEPT !.ok = FALSE]
    ELSE IF outcome = "fallocate" THEN [s1 EXCEPT !.ok = FALSE, !.may_fail = @ - 1]
    ELSE
    LET n  == FdName(s1, s1.fd_)
        s2 == [s1 EXCEPT !.files[n] = Fallocate(@, bytes), !.map_bytes_ = bytes]
    IN
    IF outcome = "mmap"
    THEN [s2 EXCEPT !.base_ = NULL, !.ok = FALSE, !.may_fail = @ - 1]
    ELSE
    LET addr == FreeAddr(s2)
        offs == ColOffsets(colsz)
        h    == [s2.hdr_ EXCEPT !.capacity = newcap, !.col_off = offs,
                                !.col_sz = ColWidths]
    IN  [s2 EXCEPT !.base_ = addr,
                   !.maps = @ \cup {[addr |-> addr, name |-> n, len |-> bytes]},
                   !.capacity_ = newcap, !.hdr_ = h, !.col_off_ = offs,
                   !.col_ptrs_ = [i \in Cols |-> [base |-> addr, off |-> offs[i]]],
                   !.files[n].hdr = h]

\* a store of w bytes through pointer p at element i hits a live mapping
ValidStore(s, p, i, w) ==
    /\ p.base # NULL
    /\ IsMapped(s, p.base)
    /\ p.off + (i + 1) * w <= MapOf(s, p.base).len

RECURSIVE StoreCols(_, _, _, _)
\* the stores of write_row_to_cols from column c on, in source order
StoreCols(s, r, i, c) ==
    IF c = COLS THEN s
    ELSE LET p == s.col_ptrs_[c]
             w == col_size(c)
         IN  IF ValidStore(s, p, i, w)
             THEN StoreCols(
                    [s EXCEPT !.files[MapOf(s, p.base).name] =
                        StoreBody(@, p.off + i * w, LEBytes(FieldOf(r, c), w))],
                    r, i, c + 1)
             ELSE [s EXCEPT !.ub = TRUE]

\* write_row_to_cols storing one slot too far
write_row_to_cols_next_slot(s, r, i) == StoreCols(s, r, i + 1, 0)

\* L2Schema::write_row_to_cols
write_row_to_cols(s, r, i) == StoreCols(s, r, i, 0)

\* the system calls of open_day_file / grow_file that may fail now
OpenOutcomes ==
    {"ok"} \cup (IF may_fail > 0
                 THEN {"mkdir", "open", "fallocate", "mmap"} ELSE {})

GrowOutcomes ==
    IF ~ FdOpen(Cur, fd_) THEN {"ebadf"}
    ELSE {"ok"} \cup (IF may_fail > 0 THEN {"fallocate", "mmap"} ELSE {})


(***************************************************************************)
(* WriterT: construction, the public calls and the worker loop             *)
(***************************************************************************)
\* dir: the files <base>/<product> holds when the writer is constructed
WriterInitIn(p, fails, dir) ==
    /\ fd_ = -1
    /\ base_ = NULL
    /\ map_bytes_ = 0
    /\ hdr_ = ZeroHdr
    /\ col_off_ = [i \in Cols |-> 0]
    /\ col_sz_ = [i \in Cols |-> 0]
    /\ col_ptrs_ = [i \in Cols |-> NullPtr]
    /\ rows_ = 0
    /\ dropped_ = 0
    /\ capacity_ = rows_per_hr
    /\ day_start_ = NoDay
    /\ queue_ = << >>
    /\ running_ = FALSE
    /\ stop_ = FALSE
    /\ fsync_every_rows \in FsyncChoices
    /\ pc = p
    /\ since_fsync = 0
    /\ row = NoRow
    /\ idx = 0
    /\ rotated = FALSE
    /\ files = dir
    /\ fds = {}
    /\ maps = {}
    /\ may_fail = fails
    /\ calls = 0
    /\ accepted = 0
    /\ wlog = << >>
    /\ last = NoLast

\* WriterT::WriterT over an empty directory
WriterInit(p, fails) == WriterInitIn(p, fails, << >>)

\* WriterT::start
Start ==
    /\ UNCHANGED << cvars, bvars, rvars, pvars >>
    /\ pc = "idle"
    /\ running_' = TRUE
    /\ stop_' = FALSE
    /\ pc' = "loop"
    /\ UNCHANGED << fd_, base_, map_bytes_, hdr_, col_off_, col_sz_, col_ptrs_,
                    rows_, dropped_, capacity_, day_start_, queue_,
                    fsync_every_rows, since_fsync, row, idx, rotated,
                    files, fds, maps, may_fail, calls, accepted, wlog, last >>

\* an enqueue that makes room in a full queue by discarding the oldest row
queue_enqueue_overwrite(q, r) ==
    IF Len(q) < kQueueCapacity THEN [ok |-> TRUE, q |-> Append(q, r)]
    ELSE [ok |-> TRUE, q |-> Append(Tail(q), r)]

\* LockFreeQueue::enqueue (utils/spsc.h): never blocks, false when full
queue_enqueue(q, r) ==
    IF Len(q) < kQueueCapacity THEN [ok |-> TRUE, q |-> Append(q, r)]
    ELSE [ok |-> FALSE, q |-> q]

\* LockFreeQueue::empty
queue_empty(q) == q = << >>

\* LockFreeQueue::dequeue: the oldest row
queue_dequeue(q) == [r |-> Head(q), q |-> Tail(q)]

\* WriterT::enqueue, called by the producer until stop()
Enqueue ==
    /\ UNCHANGED << cvars, bvars, rvars, pvars >>
    /\ pc \in {"loop", "reserved", "write", "exited"}
    /\ ~ stop_
    /\ calls < MaxRows
    /\ \E day \in DayChoices :
         LET e == queue_enqueue(queue_, MkRow(calls + 1, day)) IN
         /\ queue_' = e.q
         /\ accepted' = IF e.ok THEN accepted + 1 ELSE accepted
    /\ calls' = calls + 1
    /\ UNCHANGED << fd_, base_, map_bytes_, hdr_, col_off_, col_sz_, col_ptrs_,
                    rows_, dropped_, capacity_, day_start_, running_, stop_,
                    fsync_every_rows, pc, since_fsync, row, idx, rotated,
                    files, fds, maps, may_fail, wlog, last >>

\* WriterT::stop
Stop ==
    /\ UNCHANGED << cvars, bvars, rvars, pvars >>
    /\ pc \in {"loop", "reserved", "write"}
    /\ ~ stop_
    /\ stop_' = TRUE
    /\ UNCHANGED << fd_, base_, map_bytes_, hdr_, col_off_, col_sz_, col_ptrs_,
                    rows_, dropped_, capacity_, day_start_, queue_, running_,
                    fsync_every_rows, pc, since_fsync, row, idx, rotated,
                    files, fds, maps, may_fail, calls, accepted, wlog, last >>

\* run(): dequeue one row, rotate when its day is not the open day, then
\* reserve an index with rows_.fetch_add(1)
WorkerDequeue ==
    /\ UNCHANGED << cvars, bvars, rvars, pvars >>
    /\ pc = "loop"
    /\ running_
    /\ ~ queue_empty(queue_)
    /\ LET r == queue_dequeue(queue_).r
           h == hour_from_row(r)
           d == day_from_hour(h)
       IN
       /\ queue_' = queue_dequeue(queue_).q
       /\ row' = r
       /\ IF d # day_start_
          THEN \E outcome \in OpenOutcomes :
                 LET s == rotate_to_day(Cur, d, outcome) IN
                 \* the header store of rotate_to_day through a dangling base_
                 \E crash \in (IF s.ub THEN BOOLEAN ELSE {FALSE}) :
                   IF crash
                   THEN /\ Install(Cur)
                        /\ pc' = "crashed"
                        /\ UNCHANGED << idx, rotated >>
                        /\ last' = [kind |-> "crashed", rot |-> FALSE,
                                    row |-> r, idx |-> 0, name |-> 0]
                   ELSE IF s.ok
                   THEN /\ Install([s EXCEPT !.rows_ = @ + 1])
                        /\ idx' = s.rows_
                        /\ rotated' = TRUE
                        /\ pc' = "reserved"
                        /\ last' = [kind |-> "pending", rot |-> TRUE,
                                    row |-> r, idx |-> s.rows_, name |-> 0]
                   ELSE /\ Install([s EXCEPT !.dropped_ = @ + 1])
                        /\ pc' = "loop"
                        /\ UNCHANGED idx
                        /\ rotated' = FALSE
                        /\ last' = [kind |-> "dropped", rot |-> FALSE,
                                    row |-> r, idx |-> 0, name |-> 0]
          ELSE /\ Install([Cur EXCEPT !.rows_ = @ + 1])
               /\ idx' = rows_
               /\ rotated' = FALSE
               /\ pc' = "reserved"
               /\ last' = [kind |-> "pending", rot |-> FALSE,
                           row |-> r, idx |-> rows_, name |-> 0]
    /\ UNCHANGED << running_, stop_, fsync_every_rows, since_fsync,
                    calls, accepted, wlog >>

\* run(): "if (idx >= capacity_) { if (!grow_file()) {...; continue;} }"
WorkerGrow ==
    /\ UNCHANGED << cvars, bvars, rvars, pvars >>
    /\ pc = "reserved"
    /\ idx >= capacity_
    /\ \E outcome \in GrowOutcomes :
         LET s == grow_file(Cur, outcome) IN
         IF s.ok
         THEN /\ Install(s)
              /\ pc' = "write"
              /\ last' = last
         ELSE /\ Install([s EXCEPT !.rows_ = s.capacity_, !.dropped_ = @ + 1])
              /\ pc' = "loop"
              /\ last' = [kind |-> "dropped", rot |-> rotated,
                          row |-> row, idx |-> idx, name |-> 0]
    /\ UNCHANGED << queue_, running_, stop_, fsync_every_rows, since_fsync,
                    row, idx, rotated, calls, accepted, wlog >>

\* run(): write_row_to_cols(row, col_ptrs_, idx) and the periodic header
\* update
WorkerWrite ==
    /\ UNCHANGED << cvars, bvars, rvars, pvars >>
    /\ \/ pc = "write"
       \/ pc = "reserved" /\ idx < capacity_
    /\ LET s == write_row_to_cols(Cur, row, idx) IN
       \E crash \in (IF s.ub THEN BOOLEAN ELSE {FALSE}) :
         IF crash
         THEN /\ Install(s)
              /\ pc' = "crashed"
              /\ UNCHANGED << since_fsync, wlog >>
              /\ last' = [kind |-> "crashed", rot |-> rotated,
                          row |-> row, idx |-> idx, name |-> 0]
         ELSE
         LET sync == fsync_every_rows # 0 /\ since_fsync + 1 >= fsync_every_rows
             s1   == IF sync THEN update_rows_in_header(s) ELSE s
             name == IF s.ub THEN 0 ELSE MapOf(s, s.col_ptrs_[0].base).name
         IN  /\ Install(s1)
             /\ since_fsync' = IF fsync_every_rows = 0 THEN since_fsync
                               ELSE IF sync THEN 0 ELSE since_fsync + 1
             /\ pc' = "loop"
             /\ wlog' = IF s.ub THEN wlog
                        ELSE Append(wlog,
                               [name |-> name, idx |-> idx, row |-> row,
                                first |-> rotated,
                                file_day |-> s.files[name].hdr.hour_epoch_start])
             /\ last' = [kind |-> IF s.ub THEN "lost" ELSE "written",
                         rot |-> rotated, row |-> row, idx |-> idx,
                         name |-> name]
    /\ UNCHANGED << queue_, running_, stop_, fsync_every_rows, row, idx,
                    rotated, calls, accepted >>

\* run(): "if (stop_ && queue_.empty()) break;", then the final header
\* update and running_ = false
WorkerExit ==
    /\ UNCHANGED << cvars, bvars, rvars, pvars >>
    /\ pc = "loop"
    /\ running_
    /\ stop_
    /\ queue_empty(queue_)
    /\ LET s == update_rows_in_header(Cur) IN
       \E crash \in (IF s.ub THEN BOOLEAN ELSE {FALSE}) :
         IF crash
         THEN /\ Install(Cur)
              /\ pc' = "crashed"
              /\ UNCHANGED running_
         ELSE /\ Install(s)
              /\ pc' = "exited"
              /\ running_' = FALSE
    /\ UNCHANGED << queue_, stop_, fsync_every_rows, since_fsync, row, idx,
                    rotated, calls, accepted, wlog, last >>

\* WriterT::~WriterT after join() returned: close_file()
Destroy ==
    /\ UNCHANGED << cvars, bvars, rvars, pvars >>
    /\ pc = "exited"
    /\ Install(close_file(Cur))
    /\ pc' = "destroyed"
    /\ UNCHANGED << queue_, running_, stop_, fsync_every_rows, since_fsync,
                    row, idx, rotated, calls, accepted, wlog, last >>

\* the worker is about to store the reserved row
AboutToWrite == pc = "write" \/ (pc = "reserved" /\ idx < capacity_)

\* the worker is about to leave its loop
AboutToExit == pc = "loop" /\ running_ /\ stop_ /\ queue_empty(queue_)

\* the worker is about to take a row of a day that is not the open day
AboutToRotate ==
    /\ pc = "loop" /\ running_ /\ ~ queue_empty(queue_)
    /\ day_from_hour(hour_from_row(queue_dequeue(queue_).r)) # day_start_

\* C33: every store of a row into the column slots and every header
\* rewrite (periodic, at rotation, at worker exit) goes through a mapping
\* of the open file that is live, also after a failed grow or open.
C33_StoresThroughLiveMapping ==
    /\ AboutToWrite =>
         /\ ~ write_row_to_cols(Cur, row, idx).ub
         /\ ~ update_rows_in_header(write_row_to_cols(Cur, row, idx)).ub
    /\ AboutToExit => ~ update_rows_in_header(Cur).ub
    /\ AboutToRotate =>
         \A outcome \in OpenOutcomes :
            ~ rotate_to_day(Cur,
                day_from_hour(hour_from_row(queue_dequeue(queue_).r)), outcome).ub

\* WriterT::rows, called by any thread: rows_.load(acquire)
wr_rows(s) == s.rows_

\* slot j of every column of the open day file has been stored since the
\* writer was started
SlotWritten(j) ==
    /\ base_ # NULL
    /\ IsMapped(Cur, base_)
    /\ \E k \in DOMAIN wlog :
          wlog[k].name = MapOf(Cur, base_).name /\ wlog[k].idx = j

\* C36: whenever another thread calls rows(), whatever the worker is doing,
\* the value is at most the number of rows completely written in the open
\* day file and at most that file's capacity.
C36_RowsNotAheadOfData ==
    pc \in {"loop", "reserved", "write"} =>
       /\ \A j \in 0 .. (wr_rows(Cur) - 1) : SlotWritten(j)
       /\ wr_rows(Cur) <= capacity_

\* the same between two iterations of the worker's loop only
C36_BetweenRows ==
    pc = "loop" =>
       /\ \A j \in 0 .. (wr_rows(Cur) - 1) : SlotWritten(j)
       /\ wr_rows(Cur) <= capacity_

\* this step opens the file named n, which exists and is not mapped
OpensExisting(n) ==
    /\ n \in DOMAIN files
    /\ ~ \E e \in maps : e.name = n
    /\ \E e \in maps' : e.name = n

\* the header row count of the day file n is not lowered by this step
HeaderRowsKept(n) ==
    (OpensExisting(n) /\ files[n].hdr.rows > 0) =>
       files'[n].hdr.rows >= files[n].hdr.rows

\* a row was stored in a day file at an index below the row count the
\* file's header held when the file was opened again
StoredOverPersisted ==
    \E i, j \in DOMAIN wlog :
       i < j /\ wlog[i].name = wlog[j].name /\ wlog[i].idx = wlog[j].idx

\* C34: opening the file of a day that already holds r > 0 persisted rows
\* does not lower its header row count below r, and no later row is stored
\* over one of the r rows.
C34_ReopenKeepsData ==
    /\ [][\A n \in DOMAIN files : HeaderRowsKept(n)]_vars
    /\ [](~ StoredOverPersisted)

(***************************************************************************)
(* ReaderT over the files the writer left                                  *)
(***************************************************************************)
\* the bytes of a ColFileHeaderT<L2Schema> in memory
ColHeaderBytes(h) ==
    (IF h.magic = MAGIC THEN << 76, 50, 67, 79, 76, 10 >> ELSE Zeros(6))
      \o LEBytes(h.header_size, 2) \o LEBytes(h.version, 2) \o Zeros(2) \o Zeros(4)
      \o (IF h.product = Product THEN << 80 >> \o Zeros(15) ELSE Zeros(16))
      \o LEBytes(h.hour_epoch_start, 8) \o LEBytes(h.rows, 8)
      \o LEBytes(h.capacity, 8)
      \o LEBytes(h.col_off[0], 8) \o LEBytes(h.col_off[1], 8)
      \o LEBytes(h.col_off[2], 8) \o LEBytes(h.col_off[3], 8)
      \o LEBytes(h.col_sz[0], 8) \o LEBytes(h.col_sz[1], 8)
      \o LEBytes(h.col_sz[2], 8) \o LEBytes(h.col_sz[3], 8)
      \o Zeros(HEADER_SZ - 120)

RECURSIVE LENat(_)
\* the number stored in little-endian bytes
LENat(bs) == IF bs = << >> THEN 0 ELSE Head(bs) + 256 * LENat(Tail(bs))

\* "memcpy(&hdr_, base, sizeof(Header))": the header held by 256 bytes
ColHeaderFrom(bs) ==
    [magic |-> IF SubSeq(bs, 1, 6) = << 76, 50, 67, 79, 76, 10 >> THEN MAGIC ELSE "",
     header_size |-> LENat(SubSeq(bs, 7, 8)),
     version |-> LENat(SubSeq(bs, 9, 10)),
     product |-> IF SubSeq(bs, 17, 32) = << 80 >> \o Zeros(15) THEN Product ELSE "",
     hour_epoch_start |-> LENat(SubSeq(bs, 33, 40)),
     rows |-> LENat(SubSeq(bs, 41, 48)),
     capacity |-> LENat(SubSeq(bs, 49, 56)),
     col_off |-> [i \in Cols |-> LENat(SubSeq(bs, 57 + 8 * i, 64 + 8 * i))],
     col_sz |-> [i \in Cols |-> LENat(SubSeq(bs, 89 + 8 * i, 96 + 8 * i))]]

\* the header ReaderT reads from the start of a mapped file: a file of
\* HEADER_SZ bytes or more holds its header whole; of a shorter file the
\* rest of its last page reads as zeros
HeaderSeen(f) ==
    IF f.size >= HEADER_SZ THEN f.hdr
    ELSE ColHeaderFrom(SubSeq(ColHeaderBytes(f.hdr), 1, f.size)
                         \o Zeros(HEADER_SZ - f.size))

\* ReaderT::map_file: false for a missing or empty file or a wrong magic;
\* otherwise rows_ = hdr.rows and col_ptrs_[c] = base + hdr.col_off[c]
map_file(fs, name) ==
    IF name \notin DOMAIN fs THEN [ok |-> FALSE, rows |-> 0, col_off |-> ZeroHdr.col_off]
    ELSE IF fs[name].size <= 0 THEN [ok |-> FALSE, rows |-> 0, col_off |-> ZeroHdr.col_off]
    ELSE IF HeaderSeen(fs[name]).magic # MAGIC
    THEN [ok |-> FALSE, rows |-> 0, col_off |-> ZeroHdr.col_off]
    ELSE [ok |-> TRUE, rows |-> HeaderSeen(fs[name]).rows,
          col_off |-> HeaderSeen(fs[name]).col_off]

\* Segment::col<T>(c)[j]: the bytes of element j of column c; the empty
\* sequence when the element lies outside the mapped file
SegmentCol(f, col_off, c, j) ==
    LET w   == col_size(c)
        off == col_off[c] + j * w
    IN  IF off >= HEADER_SZ /\ off + w <= f.size THEN LoadBody(f, off, w)
        ELSE << >>

\* L2Schema::read_row_from_cols, as the bytes of the four fields
read_row_from_cols(f, col_off, j) == [c \in Cols |-> SegmentCol(f, col_off, c, j)]

\* the bytes write_row_to_cols marshals for row r
Marshaled(r) == [c \in Cols |-> LEBytes(FieldOf(r, c), col_size(c))]

(***************************************************************************)
(* Properties of the columnar writer                                       *)
(***************************************************************************)
RowDay(r) == day_from_hour(hour_from_row(r))

RECURSIVE HeaderRowsOver(_, _)
\* the sum of the on-disk header row counts of the files named in S
HeaderRowsOver(fs, S) ==
    IF S = {} THEN 0
    ELSE LET n == CHOOSE x \in S : TRUE
         IN  fs[n].hdr.rows + HeaderRowsOver(fs, S \ {n})

\* the positions of wlog holding a store into file n
WritesTo(n) == {k \in DOMAIN wlog : wlog[k].name = n}

Joined == pc \in {"exited", "destroyed"}

\* C1: once the worker has been stopped and joined, the header row counts
\* of all day files add up to the rows enqueue() accepted minus dropped().
C1_RowConservation ==
    Joined => HeaderRowsOver(files, DOMAIN files) = accepted - dropped_

\* C2: once the writer has stopped, ReaderT mapping the file of any stored
\* row finds at the row's index, in every column, the bytes that were
\* marshaled, and Segment.rows is the number of rows stored in that file.
C2_WriteReadRoundTrip ==
    Joined =>
      \A k \in DOMAIN wlog :
        LET e   == wlog[k]
            seg == map_file(files, e.name)
        IN  /\ seg.ok
            /\ read_row_from_cols(files[e.name], seg.col_off, e.idx) = Marshaled(e.row)
            /\ seg.rows = Cardinality(WritesTo(e.name))

\* the step of the worker in which grow_file() returned true
GrowStep == pc = "reserved" /\ pc' = "write"

\* C3: a successful grow_file() leaves every row written before it readable
\* at the same index through the header's new column offsets, and leaves the
\* row counter alone.
C3_GrowKeepsRows ==
    [][GrowStep =>
         LET n == FdName(Cur, fd_) IN
         /\ rows_' = rows_
         /\ \A j \in 0 .. (idx - 1) :
              read_row_from_cols(files'[n], files'[n].hdr.col_off, j)
                = read_row_from_cols(files[n], files[n].hdr.col_off, j)]_vars

\* C7: in every day file the stored rows take the indices 0, 1, 2, ... in
\* dequeue order: the k-th row stored in a file goes to index k - 1.
C7_FifoPlacement ==
    \A k \in DOMAIN wlog :
      wlog[k].idx = Cardinality({m \in WritesTo(wlog[k].name) : m < k})

\* C8: every stored row is in the file whose day_start is the row's day, so
\* two stored rows share a file exactly when they share a day.
C8_DayPartitioning ==
    /\ \A k \in DOMAIN wlog :
         /\ wlog[k].file_day = RowDay(wlog[k].row)
         /\ wlog[k].name = date_string(RowDay(wlog[k].row))
    /\ \A k, m \in DOMAIN wlog :
         (wlog[k].name = wlog[m].name) <=> (RowDay(wlog[k].row) = RowDay(wlog[m].row))

\* the step of the worker that rotates away from an open day file and opens
\* the file of another day
RotateStep ==
    /\ pc = "loop" /\ pc' = "reserved" /\ rotated'
    /\ FdOpen(Cur, fd_)

\* the rows stored in the open file since it was opened: the stores after
\* the last one that followed a rotation
RowsInOpenFile ==
    LET n  == FdName(Cur, fd_)
        ks == WritesTo(n)
        st == {k \in ks : wlog[k].first}
    IN  IF st = {} THEN 0
        ELSE LET k0 == CHOOSE k \in st : \A m \in st : m <= k
             IN  Cardinality({k \in ks : k >= k0})

\* C9: when the file of the new day is opened, the on-disk header of the
\* old day's file holds the number of rows stored in it, and the old file is
\* unmapped and closed: one descriptor and one mapping at most.
C9_RotationPersistsOldDay ==
    [][RotateStep =>
         LET n == FdName(Cur, fd_) IN
         /\ files'[n].hdr.rows = RowsInOpenFile
         /\ Cardinality(fds') <= 1
         /\ Cardinality(maps') <= 1]_vars

\* C10: the row that triggered a successful rotation is stored at index 0
\* of the file of its own day, and the row counter is 1 after it.
C10_RotatingRowAtIndexZero ==
    (pc = "loop" /\ last.rot) =>
       /\ last.kind = "written"
       /\ last.idx = 0
       /\ rows_ = 1
       /\ last.name = date_string(RowDay(last.row))
       /\ read_row_from_cols(files[last.name], files[last.name].hdr.col_off, 0)
            = Marshaled(last.row)
       /\ \A n \in DOMAIN files :
            n # last.name => \A j \in 0 .. MaxRows :
               read_row_from_cols(files[n], files[n].hdr.col_off, j)
                 # Marshaled(last.row)

\* a rotation to a second day has happened and its row has been stored
C10_Witness ==
    /\ pc = "loop" /\ last.rot /\ last.kind = "written"
    /\ Cardinality(DOMAIN files) = 2

\* the step of the worker that dequeues a row of a day strictly earlier than
\* the day of the open file
StragglerStep ==
    /\ pc = "loop" /\ queue_ # << >> /\ queue_' = Tail(queue_)
    /\ day_start_ # NoDay
    /\ FdOpen(Cur, fd_)
    /\ RowDay(Head(queue_)) < day_start_

\* C11: a dequeued row of a day strictly earlier than the open day leaves the
\* open file open and is appended to it (it gets the next index of that
\* file), and the open day never decreases.
C11_NoBackwardRotation ==
    [][/\ StragglerStep =>
            /\ fd_' = fd_ /\ base_' = base_
            /\ pc' = "reserved" /\ idx' = rows_
       /\ (day_start_ # NoDay) => day_start_' >= day_start_]_vars

\* the worker is inside run() and has a step to take
WorkerCanStep ==
    \/ pc = "loop" /\ running_ /\ (~ queue_empty(queue_) \/ stop_)
    \/ pc \in {"reserved", "write"}

\* what is left for the worker to do: at most three steps per queued row,
\* the steps of the row in flight, and the exit
WorkLeft ==
    3 * Len(queue_) + (IF pc = "reserved" THEN 2 ELSE IF pc = "write" THEN 1 ELSE 0)
      + (IF pc \in {"loop", "reserved", "write"} THEN 1 ELSE 0)

\* the state in which run() has returned: the queue is empty, every accepted
\* row was stored or counted in dropped(), and the header of the file that
\* is still open holds the number of rows stored in it since it was opened
C12_ExitState ==
    pc = "exited" =>
       /\ queue_empty(queue_)
       /\ accepted = Len(wlog) + dropped_
       /\ FdOpen(Cur, fd_) =>
            files[FdName(Cur, fd_)].hdr.rows = RowsInOpenFile

\* C12: after stop(), with producers enqueueing nothing more, the worker
\* eventually exits under fair scheduling (inside run() it always has a step
\* to take, and every step after stop() reduces the work left), and when
\* it has exited the queue is empty, every accepted row has been written or
\* counted in dropped(), and the open file's header row count is the number
\* of rows written to it.
C12_GracefulStop ==
    /\ [] ((stop_ /\ pc \in {"loop", "reserved", "write"}) => WorkerCanStep)
    /\ [][(stop_ /\ pc \in {"loop", "reserved", "write"}) => WorkLeft' < WorkLeft]_vars
    /\ [] C12_ExitState

\* a call of enqueue()
EnqueueStep == calls' = calls + 1

\* a step of the worker that takes a row from the queue
DequeueStep == calls' = calls /\ queue_' # queue_

\* the queue holds rows in the order of their enqueue() calls, all of them
\* enqueued after the row the worker dequeued last (the k-th call's row
\* carries 10000 + k in its price)
QueueInCallOrder ==
    /\ \A i, j \in DOMAIN queue_ : i < j => queue_[i].price < queue_[j].price
    /\ \A i \in DOMAIN queue_ : row.price < queue_[i].price /\ queue_[i].price <= 10000 + calls

\* C13: enqueue() on a full queue returns false and leaves the queue, rows()
\* and dropped() as they were; on a queue that is not full it returns true
\* and puts the row behind the rows already queued; the worker takes the
\* oldest row only, so each accepted row is dequeued once, after the rows
\* enqueued before it.
C13_EnqueueContract ==
    /\ [][EnqueueStep =>
            IF Len(queue_) >= kQueueCapacity
            THEN /\ accepted' = accepted /\ queue_' = queue_
                 /\ rows_' = rows_ /\ dropped_' = dropped_
            ELSE /\ accepted' = accepted + 1
                 /\ Len(queue_') = Len(queue_) + 1
                 /\ SubSeq(queue_', 1, Len(queue_)) = queue_
                 /\ queue_'[Len(queue_')].price = 10000 + calls']_vars
    /\ [][DequeueStep =>
            /\ queue_ # << >>
            /\ row' = Head(queue_) /\ queue_' = Tail(queue_)]_vars
    /\ [] QueueInCallOrder

\* an enqueue() call was refused on a full queue and the worker has since
\* dequeued a row that was enqueued behind another
C13_Witness ==
    /\ calls > accepted
    /\ row.price > 10001
    /\ queue_ # << >>

\* the last rotation failed: the writer is on day day_start_ and holds no
\* open descriptor of that day's file
OpenFailed ==
    /\ day_start_ # NoDay
    /\ ~ (FdOpen(Cur, fd_) /\ FdName(Cur, fd_) = date_string(day_start_))

\* C14: when opening the file of day d has failed, the row that triggered
\* the rotation and every later row of day d, until a rotation succeeds, is
\* dropped in the step that dequeues it: dropped() goes up by one and
\* nothing is stored.
C14_FailedRotationDrops ==
    [][(/\ DequeueStep /\ pc = "loop"
        /\ OpenFailed'
        /\ RowDay(Head(queue_)) = day_start_')
         => /\ dropped_' = dropped_ + 1
            /\ pc' = "loop"
            /\ wlog' = wlog
            /\ \A n \in DOMAIN files : files'[n].body = files[n].body]_vars

\* the step of the worker in which grow_file() returned false
GrowFailStep == pc = "reserved" /\ idx >= capacity_ /\ pc' = "loop"

\* the last grow_file() on the open file of the current day failed: the
\* descriptor is open and base_ is not a live mapping
GrowFailed ==
    /\ FdOpen(Cur, fd_)
    /\ FdName(Cur, fd_) = date_string(day_start_)
    /\ ~ IsMapped(Cur, base_)

\* the positions of wlog holding the stores into the open file since it was
\* opened
OpenFileStores ==
    LET n  == FdName(Cur, fd_)
        ks == WritesTo(n)
        st == {k \in ks : wlog[k].first}
    IN  IF st = {} THEN {}
        ELSE LET k0 == CHOOSE k \in st : \A m \in st : m <= k
             IN  {k \in ks : k >= k0}

\* C15: when grow_file() fails for a row whose index is >= capacity, the row
\* is not stored, dropped() goes up by one and the row counter is set back
\* to capacity; and once the writer has stopped in that condition, the
\* header of the file says rows = capacity and the rows at the indices
\* below capacity read back as stored.
C15_FailedGrow ==
    /\ [][GrowFailStep =>
            /\ dropped_' = dropped_ + 1
            /\ capacity_' = capacity_ /\ rows_' = capacity_
            /\ wlog' = wlog
            /\ \A n \in DOMAIN files :
                 SubSeq(files'[n].body, 1, Len(files[n].body)) = files[n].body]_vars
    /\ [] ((pc = "exited" /\ GrowFailed) =>
             LET n == FdName(Cur, fd_) IN
             /\ files[n].hdr.rows = capacity_
             /\ \A k \in OpenFileStores :
                  wlog[k].idx < capacity_ =>
                    read_row_from_cols(files[n], files[n].hdr.col_off, wlog[k].idx)
                      = Marshaled(wlog[k].row))

\* capacity_ is rows_per_hr before the first file is opened and
\* 2 * rows_per_hr doubled some number of times afterwards
RECURSIVE IsDoubled(_, _)
IsDoubled(c, from) ==
    IF c < from THEN FALSE ELSE IF c = from THEN TRUE ELSE IsDoubled(c, 2 * from)

\* C16: with every system call succeeding and rows of a single day, the
\* capacity starts at 2 * rows_per_hr, only ever doubles and is at least the
\* number of rows stored; when the writer has stopped the header says
\* rows = n for the n rows accepted, dropped() is 0 and all n rows read back.
C16_CapacityGrowth ==
    /\ [][capacity_' = capacity_
           \/ (capacity_' = 2 * rows_per_hr /\ rotated')
           \/ capacity_' = 2 * capacity_]_vars
    /\ [] (Cardinality(DOMAIN files) = 1 =>
             /\ IsDoubled(capacity_, 2 * rows_per_hr)
             /\ capacity_ >= Len(wlog)
             /\ pc = "exited" =>
                  LET n == FdName(Cur, fd_) IN
                  /\ files[n].hdr.rows = accepted
                  /\ dropped_ = 0
                  /\ Len(wlog) = accepted
                  /\ \A k \in DOMAIN wlog :
                       read_row_from_cols(files[n], files[n].hdr.col_off, wlog[k].idx)
                         = Marshaled(wlog[k].row))

\* a day file is open: fd_ is an open descriptor and base_ a live mapping
FileIsOpen == FdOpen(Cur, fd_) /\ IsMapped(Cur, base_)

RECURSIVE Pow2(_)
Pow2(k) == IF k = 0 THEN 1 ELSE 2 * Pow2(k - 1)

\* the w-bit word of the number v (v below 2^31)
Word(v, w) == [i \in 1 .. w |-> IF i > 31 THEN 0 ELSE (v \div Pow2(i - 1)) % 2] \o << >>

RECURSIVE NatFrom(_, _)
NatFrom(a, i) == IF i > Len(a) THEN 0 ELSE a[i] + 2 * NatFrom(a, i + 1)

\* the position of the highest set bit, 0 for the zero word
BitLen(a) ==
    LET S == {i \in 1 .. Len(a) : a[i] = 1}
    IN  IF S = {} THEN 0 ELSE CHOOSE i \in S : \A j \in S : j <= i

\* the number a word stands for (words below 2^31 only)
ToNat(a) == NatFrom(SubSeq(a, 1, BitLen(a)), 1)

\* conversion of an unsigned word to w bits: truncation or zero extension
Cast(a, w) == [i \in 1 .. w |-> IF i <= Len(a) THEN a[i] ELSE 0] \o << >>

BitAnd(a, b) == [i \in 1 .. Len(a) |-> a[i] * b[i]] \o << >>
BitOr(a, b)  == [i \in 1 .. Len(a) |-> IF a[i] + b[i] > 0 THEN 1 ELSE 0] \o << >>
BitXor(a, b) == [i \in 1 .. Len(a) |-> (a[i] + b[i]) % 2] \o << >>
BitNot(a)    == [i \in 1 .. Len(a) |-> 1 - a[i]] \o << >>

\* a << k and a >> k for k below the width
Shl(a, k) == [i \in 1 .. Len(a) |-> IF i > k THEN a[i - k] ELSE 0] \o << >>
Shr(a, k) == [i \in 1 .. Len(a) |-> IF i + k <= Len(a) THEN a[i + k] ELSE 0] \o << >>
\* >> of a signed word: the sign bit is shifted in
Sar(a, k) == [i \in 1 .. Len(a) |-> IF i + k <= Len(a) THEN a[i + k] ELSE a[Len(a)]] \o << >>

\* the bytes of a word in memory (little endian) and back
BytesOf(a) == [k \in 1 .. (Len(a) \div 8) |-> NatFrom(SubSeq(a, 8 * k - 7, 8 * k), 1)] \o << >>

RECURSIVE WordOf(_)
WordOf(bs) == IF bs = << >> THEN << >> ELSE Word(Head(bs), 8) \o WordOf(Tail(bs))

\* the number stored in little-endian bytes (below 2^31)
LEVal(bs) == ToNat(WordOf(bs))

RECURSIVE AddBytes(_, _, _, _)
\* addition byte by byte with carry c
AddBytes(x, y, k, c) ==
    IF k > Len(x) THEN << >>
    ELSE LET t == x[k] + y[k] + c
         IN  << t % 256 >> \o AddBytes(x, y, k + 1, t \div 256)

WAdd(a, b) == WordOf(AddBytes(BytesOf(a), BytesOf(b), 1, 0))
WNeg(a)    == WAdd(BitNot(a), Word(1, Len(a)))
WSub(a, b) == WAdd(a, WNeg(b))

RECURSIVE Conv(_, _, _, _)
\* the products that land in byte k
Conv(x, y, k, i) ==
    IF i > k THEN 0 ELSE x[i] * y[k + 1 - i] + Conv(x, y, k, i + 1)

RECURSIVE MulBytes(_, _, _, _)
MulBytes(x, y, k, c) ==
    IF k > Len(x) THEN << >>
    ELSE LET t == Conv(x, y, k, 1) + c
         IN  << t % 256 >> \o MulBytes(x, y, k + 1, t \div 256)

WMul(a, b) == WordOf(MulBytes(BytesOf(a), BytesOf(b), 1, 0))

RECURSIVE DivBytes(_, _, _, _)
\* long division from the top byte down
DivBytes(x, d, k, rem) ==
    IF k = 0 THEN << >>
    ELSE LET r == 256 * rem + x[k]
         IN  DivBytes(x, d, k - 1, r % d) \o << r \div d >>

\* a / d for a divisor below 2^23
WDiv(a, d) == WordOf(DivBytes(BytesOf(a), d, Len(a) \div 8, 0))

\* a < b, unsigned
ULess(a, b) ==
    \E i \in 1 .. Len(a) :
       /\ a[i] < b[i]
       /\ \A j \in (i + 1) .. Len(a) : a[j] = b[j]

(***************************************************************************)
(* L2TBlockCodec                                                           *)
(***************************************************************************)
\* sizeof(BlockHeader), packed
BLOCK_HDR_SZ == 76

\* BlockHeader::ts_scale_ns default member initialiser
TS_SCALE_NS == 1000000

\* the characters 'L' and 'T'
CharL == 76
CharT == 84

\* "BlockHeader hdr{}"
ZeroBlockHeader ==
    [magic |-> Zeros(8), version |-> 0, flags |-> 0, n_rows |-> 0,
     base_ts |-> Word(0, 64), base_px |-> Word(0, 32),
     ts_scale_ns |-> TS_SCALE_NS, ts_bw |-> 0, px_bw |-> 0, reserved0 |-> 0,
     off_ts |-> 0, len_ts |-> 0, off_px |-> 0, len_px |-> 0,
     off_sz |-> 0, len_sz |-> 0, off_side |-> 0, len_side |-> 0,
     off_type |-> 0, len_type |-> 0]

\* the 76 bytes of a BlockHeader in memory
HeaderBytes(h) ==
    h.magic \o LEBytes(h.version, 2) \o LEBytes(h.flags, 2)
      \o LEBytes(h.n_rows, 4) \o BytesOf(h.base_ts) \o BytesOf(h.base_px)
      \o LEBytes(h.ts_scale_ns, 4) \o LEBytes(h.ts_bw, 1) \o LEBytes(h.px_bw, 1)
      \o LEBytes(h.reserved0, 2)
      \o LEBytes(h.off_ts, 4) \o LEBytes(h.len_ts, 4)
      \o LEBytes(h.off_px, 4) \o LEBytes(h.len_px, 4)
      \o LEBytes(h.off_sz, 4) \o LEBytes(h.len_sz, 4)
      \o LEBytes(h.off_side, 4) \o LEBytes(h.len_side, 4)
      \o LEBytes(h.off_type, 4) \o LEBytes(h.len_type, 4)

\* "memcpy(&hdr, src, sizeof(BlockHeader))"
HeaderFrom(src) ==
    [magic |-> SubSeq(src, 1, 8),
     version |-> LEVal(SubSeq(src, 9, 10)), flags |-> LEVal(SubSeq(src, 11, 12)),
     n_rows |-> LEVal(SubSeq(src, 13, 16)),
     base_ts |-> WordOf(SubSeq(src, 17, 24)),
     base_px |-> WordOf(SubSeq(src, 25, 28)),
     ts_scale_ns |-> LEVal(SubSeq(src, 29, 32)),
     ts_bw |-> src[33], px_bw |-> src[34],
     reserved0 |-> LEVal(SubSeq(src, 35, 36)),
     off_ts |-> LEVal(SubSeq(src, 37, 40)), len_ts |-> LEVal(SubSeq(src, 41, 44)),
     off_px |-> LEVal(SubSeq(src, 45, 48)), len_px |-> LEVal(SubSeq(src, 49, 52)),
     off_sz |-> LEVal(SubSeq(src, 53, 56)), len_sz |-> LEVal(SubSeq(src, 57, 60)),
     off_side |-> LEVal(SubSeq(src, 61, 64)), len_side |-> LEVal(SubSeq(src, 65, 68)),
     off_type |-> LEVal(SubSeq(src, 69, 72)), len_type |-> LEVal(SubSeq(src, 73, 76))]

\* L2TBlockCodec::ceil_log2_u64; __builtin_clzll(y) is 64 - BitLen(y)
ceil_log2_u64(x) ==
    IF BitLen(x) <= 1 THEN 1
    ELSE 64 - (64 - BitLen(WSub(x, Word(1, 64))))

\* zigzag_enc32 with a logical in place of the arithmetic right shift
zigzag_enc32_logical(v) == BitXor(Shl(v, 1), Shr(v, 31))

\* L2TBlockCodec::zigzag_enc32
zigzag_enc32(v) == BitXor(Shl(v, 1), Sar(v, 31))

\* L2TBlockCodec::zigzag_dec32
zigzag_dec32(v) == BitXor(Shr(v, 1), WNeg(BitAnd(v, Word(1, 32))))

RECURSIVE PackDrain(_)
\* "while (bits >= 8) { out.push_back(acc & 0xff); acc >>= 8; bits -= 8; }"
PackDrain(st) ==
    IF st.bits >= 8
    THEN PackDrain([acc |-> Shr(st.acc, 8), bits |-> st.bits - 8,
                    out |-> Append(st.out, ToNat(Cast(st.acc, 8)))])
    ELSE st

RECURSIVE PackLoop(_, _, _, _, _, _)
\* the loop of bitpack_u32 / bitpack_u64 from element i on (i counts from
\* 0), then "if (bits > 0) out.push_back(acc & 0xff)"
PackLoop(vals, i, n, bw, mask, st) ==
    IF i >= n
    THEN IF st.bits > 0 THEN Append(st.out, ToNat(Cast(st.acc, 8))) ELSE st.out
    ELSE LET v   == BitAnd(Cast(vals[i + 1], 64), mask)
             acc == BitOr(st.acc, Shl(v, st.bits))
         IN  PackLoop(vals, i + 1, n, bw, mask,
                      PackDrain([acc |-> acc, bits |-> st.bits + bw,
                                 out |-> st.out]))

\* L2TBlockCodec::bitpack_u32: out with the packed bytes appended
bitpack_u32(vals, n, bw, out) ==
    IF bw = 0 \/ n = 0 THEN out
    ELSE LET mask == IF bw = 32 THEN Cast(BitNot(Word(0, 32)), 64)
                     ELSE WSub(Shl(Word(1, 64), bw), Word(1, 64))
         IN  PackLoop(vals, 0, n, bw, mask,
                      [acc |-> Word(0, 64), bits |-> 0, out |-> out])

\* L2TBlockCodec::bitpack_u64
bitpack_u64(vals, n, bw, out) ==
    IF bw = 0 \/ n = 0 THEN out
    ELSE LET mask == IF bw = 64 THEN BitNot(Word(0, 64))
                     ELSE WSub(Shl(Word(1, 64), bw), Word(1, 64))
         IN  PackLoop(vals, 0, n, bw, mask,
                      [acc |-> Word(0, 64), bits |-> 0, out |-> out])

\* the byte at src[k]; a read past the buffer is flagged by the callers
ReadByte(src, k) == IF k < Len(src) THEN src[k + 1] ELSE 0

RECURSIVE UnpackFill(_, _, _)
\* "while (bits < bw) { acc |= uint64_t(src[idx++]) << bits; bits += 8; }"
UnpackFill(src, bw, st) ==
    IF st.bits < bw
    THEN UnpackFill(src, bw,
           [st EXCEPT !.acc  = BitOr(@, Shl(Word(ReadByte(src, st.idx), 64), st.bits)),
                      !.bits = @ + 8,
                      !.idx  = @ + 1,
                      !.ub   = @ \/ st.idx >= Len(src)])
    ELSE st

RECURSIVE UnpackLoop(_, _, _, _, _, _, _)
\* the loop of bitunpack_u32 / bitunpack_u64 from element i on; w is the
\* width of the output elements; "acc >>= bw" is undefined for bw = 64
UnpackLoop(src, i, n, bw, mask, w, st) ==
    IF i >= n THEN st
    ELSE LET f == UnpackFill(src, bw, st)
         IN  UnpackLoop(src, i + 1, n, bw, mask, w,
               [f EXCEPT !.vals = Append(@, Cast(BitAnd(f.acc, mask), w)),
                         !.acc  = Shr(f.acc, bw),
                         !.bits = f.bits - bw,
                         !.ub   = @ \/ bw >= 64])

\* L2TBlockCodec::bitunpack_u64 reading at src + off
bitunpack_u64(src, off, n, bw) ==
    IF bw = 0 \/ n = 0 THEN [vals |-> [i \in 1 .. n |-> Word(0, 64)] \o << >>, ub |-> FALSE]
    ELSE LET mask == IF bw = 64 THEN BitNot(Word(0, 64))
                     ELSE WSub(Shl(Word(1, 64), bw), Word(1, 64))
         IN  UnpackLoop(src, 0, n, bw, mask, 64,
                        [acc |-> Word(0, 64), bits |-> 0, idx |-> off,
                         vals |-> << >>, ub |-> FALSE])

\* L2TBlockCodec::bitunpack_u32 reading at src + off; the zero-fill branch
\* for bw = 0 does not return, the loop below runs after it
bitunpack_u32(src, off, n, bw) ==
    LET mask == IF bw = 32 THEN Cast(BitNot(Word(0, 32)), 64)
                ELSE WSub(Shl(Word(1, 64), bw), Word(1, 64))
    IN  UnpackLoop(src, 0, n, bw, mask, 32,
                   [acc |-> Word(0, 64), bits |-> 0, idx |-> off,
                    vals |-> << >>, ub |-> FALSE])

RECURSIVE PackBits(_, _, _)
\* the byte with (src[i + k] & 1) << k for k = 0 .. m - 1
PackBits(src, i, m) ==
    IF m = 0 THEN 0 ELSE (src[i + 1] % 2) + 2 * PackBits(src, i + 1, m - 1)

RECURSIVE PackFlags(_, _, _, _)
PackFlags(src, i, n, out) ==
    IF i + 8 <= n THEN PackFlags(src, i + 8, n, Append(out, PackBits(src, i, 8)))
    ELSE IF i < n THEN Append(out, PackBits(src, i, n - i))
    ELSE out

\* L2TBlockCodec::bitpack_u8
bitpack_u8(src, n, out) == PackFlags(src, 0, n, out)

\* L2TBlockCodec::bitunpack_u8 reading at src + off
bitunpack_u8(src, off, n) ==
    [vals |-> [i \in 1 .. n |->
                 (ReadByte(src, off + (i - 1) \div 8) \div Pow2((i - 1) % 8)) % 2]
                \o << >>,
     ub   |-> n > 0 /\ off + (n + 7) \div 8 > Len(src)]

RECURSIVE UMax(_, _, _)
\* "if (v[i] > m) m = v[i]" over v[i .. ]
UMax(v, i, m) ==
    IF i > Len(v) THEN m
    ELSE UMax(v, i + 1, IF ULess(m, Cast(v[i], 64)) THEN Cast(v[i], 64) ELSE m)

RECURSIVE SizeBytes(_, _)
\* "memcpy(p + i * sizeof(float), &rows[i].size, sizeof(float))" for all i
SizeBytes(rws, i) ==
    IF i > Len(rws) THEN << >> ELSE BytesOf(rws[i].size) \o SizeBytes(rws, i + 1)

\* the end of encode_block: the header, whose offsets and lengths are those
\* of the five columns, followed by the columns
EncodeHeader(rws, n, out, ts_bw, px_bw, ts, px, sz, sd, ty) ==
    out \o HeaderBytes([ZeroBlockHeader EXCEPT
                          !.version = 1, !.flags = 0, !.n_rows = n,
                          !.base_ts = rws[1].ts_ns, !.base_px = rws[1].price,
                          !.ts_bw = ts_bw, !.px_bw = px_bw, !.reserved0 = 0,
                          !.off_ts = BLOCK_HDR_SZ, !.len_ts = Len(ts),
                          !.off_px = BLOCK_HDR_SZ + Len(ts), !.len_px = Len(px),
                          !.off_sz = BLOCK_HDR_SZ + Len(ts) + Len(px),
                          !.len_sz = Len(sz),
                          !.off_side = BLOCK_HDR_SZ + Len(ts) + Len(px) + Len(sz),
                          !.len_side = Len(sd),
                          !.off_type = BLOCK_HDR_SZ + Len(ts) + Len(px) + Len(sz)
                                         + Len(sd),
                          !.len_type = Len(ty)])
        \o ts \o px \o sz \o sd \o ty

\* encode_block once the deltas are known: "max_dt", "max_dxz", the bit
\* widths computed from them and the columns
EncodeColumns(rws, n, out, ts_delta, px_delta_zigzag) ==
    LET ts_bw == ceil_log2_u64(WAdd(UMax(ts_delta, 1, Word(0, 64)),
                                    Word(1, 64))) % 256
        px_bw == ceil_log2_u64(WAdd(UMax(px_delta_zigzag, 1, Word(0, 64)),
                                    Word(1, 64))) % 256
    IN
    EncodeHeader(rws, n, out, ts_bw, px_bw,
                 bitpack_u64(ts_delta, n, ts_bw, << >>),
                 bitpack_u32(px_delta_zigzag, n, px_bw, << >>),
                 SizeBytes(rws, 1),
                 bitpack_u8([i \in 1 .. n |-> rws[i].side] \o << >>, n, << >>),
                 bitpack_u8([i \in 1 .. n |-> IF rws[i].type = CharT THEN 1 ELSE 0]
                              \o << >>, n, << >>))

\* L2TBlockCodec::encode_block: out with one block appended
encode_block(rws, n, out) ==
    IF n = 0 THEN out
    ELSE EncodeColumns(rws, n, out,
           [i \in 1 .. n |->
              Cast(Cast(WDiv(WSub(rws[i].ts_ns, rws[1].ts_ns), TS_SCALE_NS), 32), 64)]
             \o << >>,
           [i \in 1 .. n |->
              zigzag_enc32(Cast(WSub(Cast(rws[i].price, 64),
                                     Cast(rws[1].price, 64)), 32))] \o << >>)

\* check_magic(hdr): called by decode_block, defined nowhere in the
\* repository; it compares the header's magic with the codec's magic
check_magic(hdr, magic) == hdr.magic = magic

\* a value-initialised Row of the codec
ZeroRow ==
    [ts_ns |-> Word(0, 64), ts_ts |-> Word(0, 64), price |-> Word(0, 32),
     size |-> Word(0, 32), side |-> 0, type |-> 0]

Max2(a, b) == IF a >= b THEN a ELSE b

\* the first row whose price exceeds 32 bits, n + 1 when there is none
FirstOverflow(hdr, px_dz, n) ==
    LET over == {i \in 1 .. n :
                   ULess(Cast(BitNot(Word(0, 32)), 64),
                         Cast(WAdd(hdr.base_px, zigzag_dec32(px_dz.vals[i])), 64))}
    IN  IF over = {} THEN n + 1 ELSE CHOOSE i \in over : \A j \in over : i <= j

\* decode_block once the columns are unpacked: the row loop; stop is the
\* row at which it throws
DecodeRows(src, hdr, n, resized, ts_delta, px_dz, side, type) ==
    LET stop   == FirstOverflow(hdr, px_dz, n)
        fsz(i) == WordOf([k \in 1 .. 4 |->
                            ReadByte(src, hdr.off_sz + (i - 1) * 4 + k - 1)])
        ts(i)  == WAdd(hdr.base_ts,
                       WMul(ts_delta.vals[i], Word(hdr.ts_scale_ns, 64)))
    IN  [thrown   |-> IF stop <= n THEN "price overflow" ELSE "",
         ret      |-> IF stop <= n THEN 0
                      ELSE Max2(Max2(hdr.off_ts + hdr.len_ts,
                                Max2(hdr.off_px + hdr.len_px,
                                Max2(hdr.off_sz + hdr.len_sz,
                                Max2(hdr.off_side + hdr.len_side,
                                     hdr.off_type + hdr.len_type)))),
                                BLOCK_HDR_SZ),
         rows_out |-> [i \in 1 .. n |->
                         IF i < stop
                         THEN [resized[i] EXCEPT
                                 !.ts_ts = ts(i), !.size = fsz(i),
                                 !.side = side.vals[i],
                                 !.type = IF type.vals[i] = 1 THEN CharT ELSE CharL]
                         ELSE IF i = stop THEN [resized[i] EXCEPT !.ts_ts = ts(i)]
                         ELSE resized[i]] \o << >>,
         ub       |-> \/ ts_delta.ub \/ px_dz.ub \/ side.ub \/ type.ub
                      \/ hdr.off_sz + 4 * n > Len(src)]

\* decode_block once the header is copied out of src
DecodeHeader(src, rows_out, magic, hdr) ==
    IF ~ check_magic(hdr, magic)
    THEN [thrown |-> "block magic incorrect", ret |-> 0, rows_out |-> rows_out,
          ub |-> FALSE]
    ELSE IF hdr.n_rows = 0
    THEN [thrown |-> "", ret |-> BLOCK_HDR_SZ, rows_out |-> rows_out, ub |-> FALSE]
    ELSE DecodeRows(src, hdr, hdr.n_rows,
           [i \in 1 .. hdr.n_rows |->
              IF i <= Len(rows_out) THEN rows_out[i] ELSE ZeroRow] \o << >>,
           IF hdr.ts_bw = 0
           THEN [vals |-> [i \in 1 .. hdr.n_rows |-> Word(0, 64)] \o << >>,
                 ub |-> FALSE]
           ELSE bitunpack_u64(src, hdr.off_ts, hdr.n_rows, hdr.ts_bw),
           IF hdr.px_bw = 0
           THEN [vals |-> [i \in 1 .. hdr.n_rows |-> Word(0, 32)] \o << >>,
                 ub |-> FALSE]
           ELSE bitunpack_u32(src, hdr.len_px, hdr.n_rows, hdr.px_bw),
           bitunpack_u8(src, hdr.off_side, hdr.n_rows),
           bitunpack_u8(src, hdr.off_type, hdr.n_rows))

\* L2TBlockCodec::decode_block on the bytes src (readable memory from the
\* block start on) of which src_len are declared; rows_out is the caller's
\* vector.  thrown is the message of the exception, "" when it returns.
decode_block(src, src_len, rows_out, magic) ==
    IF src_len < BLOCK_HDR_SZ
    THEN [thrown |-> "block too small", ret |-> 0, rows_out |-> rows_out, ub |-> FALSE]
    ELSE DecodeHeader(src, rows_out, magic, HeaderFrom(src))

(***************************************************************************)
(* The codec driven by a caller: one batch is encoded into an empty        *)
(* vector and the bytes are decoded into an empty vector.                  *)
(***************************************************************************)
\* 1 700 000 000 s after the epoch, in ns
BaseTs == WMul(Word(1700000000, 64), Word(1000000000, 64))

\* a row of the codec's Row type, ts_ns given relative to BaseTs; size is
\* the bit pattern of the float
TradeRow(dt, px, sz, sd, ty) ==
    [ts_ns |-> WAdd(BaseTs, Word(dt, 64)), ts_ts |-> Word(0, 64),
     price |-> Word(px, 32), size |-> Word(sz, 32), side |-> sd, type |-> ty]

\* the rows batches are made of
CodecRows ==
    {TradeRow(0, 10000, 1056964608, 1, CharL),
     TradeRow(1500000, 10007, 1069547520, 0, CharT),
     TradeRow(999999, 9950, 1056964608, 0, CharL),
     TradeRow(2500000, 10000, 1069547520, 1, CharT),
     \* fifty days after BaseTs: 4 320 000 000 ms, more than 2^32
     [TradeRow(0, 10003, 1056964608, 1, CharL) EXCEPT
        !.ts_ns = WAdd(BaseTs, WMul(Word(4320000, 64), Word(1000000000, 64)))],
     \* a price of 2^32 - 16
     [TradeRow(2000000, 0, 1069547520, 0, CharT) EXCEPT
        !.price = BitNot(Word(15, 32))]}

\* the caller holds a batch of at most MaxBatch rows; check_magic compares
\* with the all-zero magic of a value-initialised header or with a tag
CodecInit ==
    /\ in_rows \in UNION {[1 .. k -> CodecRows] : k \in 0 .. MaxBatch}
    /\ enc_out = << >>
    /\ dec_rows = << >>
    /\ dec_ret = [kind |-> "none", value |-> 0, what |-> ""]
    /\ cpc = "input"
    /\ block_magic \in {Zeros(8), << 76, 50, 66, 76, 75, 0, 0, 0 >>}

\* the codec is not driven
CodecIdle ==
    /\ in_rows = << >>
    /\ enc_out = << >>
    /\ dec_rows = << >>
    /\ dec_ret = [kind |-> "none", value |-> 0, what |-> ""]
    /\ cpc = "unused"

\* "std::vector<uint8_t> out; encode_block(rows, n, out);"
EncodeBlock ==
    /\ cpc = "input"
    /\ enc_out' = encode_block(in_rows, Len(in_rows), << >>)
    /\ cpc' = "encoded"
    /\ UNCHANGED << in_rows, dec_rows, dec_ret, block_magic >>
    /\ UNCHANGED << wvars, bvars, rvars, pvars >>

\* what decode_block did becomes the caller's state; a read past the
\* buffer either faults or yields the zero byte
DecodeInstall(d) ==
    \E crash \in (IF d.ub THEN BOOLEAN ELSE {FALSE}) :
       /\ dec_rows' = IF crash THEN << >> ELSE d.rows_out
       /\ dec_ret' = IF crash THEN [kind |-> "crashed", value |-> 0, what |-> ""]
                     ELSE IF d.thrown # ""
                     THEN [kind |-> "thrown", value |-> 0, what |-> d.thrown]
                     ELSE [kind |-> "returned", value |-> d.ret, what |-> ""]

\* "std::vector<Row> rows_out; decode_block(out.data(), out.size(), rows_out);"
DecodeBlock ==
    /\ cpc = "encoded"
    /\ DecodeInstall(decode_block(enc_out, Len(enc_out), << >>, block_magic))
    /\ cpc' = "decoded"
    /\ UNCHANGED << in_rows, enc_out, block_magic >>
    /\ UNCHANGED << wvars, bvars, rvars, pvars >>

\* "decode_block(out.data(), k, rows_out)" on the first k bytes of the
\* block only, the header included: the caller's buffer ends inside a column
DecodeTruncated ==
    /\ cpc = "encoded"
    /\ \E k \in BLOCK_HDR_SZ .. (Len(enc_out) - 1) :
         DecodeInstall(decode_block(SubSeq(enc_out, 1, k), k, << >>, block_magic))
    /\ cpc' = "decoded short"
    /\ UNCHANGED << in_rows, enc_out, block_magic >>
    /\ UNCHANGED << wvars, bvars, rvars, pvars >>

\* base + floor((ts - base) / TS_SCALE_NS) * TS_SCALE_NS
Quantized(ts, base) ==
    IF ULess(ts, base)
    THEN WSub(base, WMul(WDiv(WAdd(WSub(base, ts), Word(TS_SCALE_NS - 1, 64)),
                              TS_SCALE_NS),
                         Word(TS_SCALE_NS, 64)))
    ELSE WAdd(base, WMul(WDiv(WSub(ts, base), TS_SCALE_NS), Word(TS_SCALE_NS, 64)))

\* C4: decoding the bytes encode_block produced for a non-empty batch
\* returns as many rows in the same order, with price, size, side and type
\* of the inputs and ts_ns quantized to TS_SCALE_NS relative to base_ts.
C4_BlockCodecRoundTrip ==
    (cpc = "decoded" /\ Len(in_rows) >= 1) =>
       /\ dec_ret.kind = "returned"
       /\ Len(dec_rows) = Len(in_rows)
       /\ \A i \in 1 .. Len(in_rows) :
            /\ dec_rows[i].price = in_rows[i].price
            /\ dec_rows[i].size = in_rows[i].size
            /\ dec_rows[i].side = in_rows[i].side
            /\ dec_rows[i].type = in_rows[i].type
            /\ dec_rows[i].ts_ns = Quantized(in_rows[i].ts_ns, in_rows[1].ts_ns)

\* what decode_block does get right when check_magic accepts the block and
\* no row is older than the first: the row count, size, side and type, and
\* the quantized time in ts_ts
C4_DecodedFields ==
    (/\ cpc = "decoded" /\ Len(in_rows) >= 1 /\ dec_ret.kind = "returned"
     /\ \A i \in 1 .. Len(in_rows) : ~ ULess(in_rows[i].ts_ns, in_rows[1].ts_ns)) =>
       /\ Len(dec_rows) = Len(in_rows)
       /\ \A i \in 1 .. Len(in_rows) :
            /\ dec_rows[i].size = in_rows[i].size
            /\ dec_rows[i].side = in_rows[i].side % 2
            /\ dec_rows[i].type = (IF in_rows[i].type = CharT THEN CharT ELSE CharL)
            /\ dec_rows[i].ts_ts = Quantized(in_rows[i].ts_ns, in_rows[1].ts_ns)

\* a block has been encoded from a batch of at least one row
Encoded == cpc \in {"encoded", "decoded", "decoded short"} /\ Len(in_rows) >= 1

\* (ts_ns[i] - base_ts) / ts_scale_ns as a 64-bit value
ScaledDelta(i) == WDiv(WSub(in_rows[i].ts_ns, in_rows[1].ts_ns), TS_SCALE_NS)

\* zigzag32(price[i] - base_px)
PriceZigZag(i) ==
    zigzag_enc32(Cast(WSub(Cast(in_rows[i].price, 64), Cast(in_rows[1].price, 64)), 32))

\* the smallest b >= 1 with v < 2^b for every word v in S
MinWidth(S) ==
    CHOOSE b \in 1 .. 64 :
       /\ \A v \in S : BitLen(v) <= b
       /\ \A c \in 1 .. (b - 1) : \E v \in S : BitLen(v) > c

\* C23: in every encoded block of n >= 1 rows ts_bw is the smallest b >= 1
\* with every scaled timestamp delta below 2^b and px_bw the smallest
\* b >= 1 with every zig-zagged price delta below 2^b.
C23_MinimalBitWidths ==
    Encoded =>
      /\ HeaderFrom(enc_out).ts_bw
           = MinWidth({ScaledDelta(i) : i \in 1 .. Len(in_rows)})
      /\ HeaderFrom(enc_out).px_bw
           = MinWidth({PriceZigZag(i) : i \in 1 .. Len(in_rows)})

\* base_px + zigzag_dec32(px_zz[i]) of the encoded block in 64-bit signed
\* arithmetic: the int32_t delta is sign-extended
ReconstructedPrice(i) ==
    WAdd(Cast(in_rows[1].price, 64),
         [k \in 1 .. 64 |-> IF k <= 32 THEN zigzag_dec32(PriceZigZag(i))[k]
                            ELSE zigzag_dec32(PriceZigZag(i))[32]] \o << >>)

\* the block holds a row whose reconstructed price is below 0 or above
\* 2^32 - 1
PriceOverflows ==
    \E i \in 1 .. Len(in_rows) :
       ULess(Cast(BitNot(Word(0, 32)), 64), ReconstructedPrice(i))

\* C24: decode_block raises an error, and returns no rows, for a block whose
\* base_px and zig-zag price delta reconstruct to a price below 0 or above
\* 2^32 - 1.
C24_PriceOverflowRejected ==
    (cpc = "decoded" /\ Len(in_rows) >= 1 /\ PriceOverflows) =>
       dec_ret.kind = "thrown"

\* decode_block was called on a block whose magic check_magic rejects
WrongMagic ==
    /\ cpc \in {"decoded", "decoded short"}
    /\ Len(enc_out) >= BLOCK_HDR_SZ
    /\ SubSeq(enc_out, 1, 8) # block_magic

\* C25: decode_block raises, reading no byte at or beyond src + src_len,
\* when the header's magic is wrong or a declared column range extends past
\* src_len (as it does for every block cut short).
C25_DecodeBoundsCheck ==
    (WrongMagic \/ cpc = "decoded short") => dec_ret.kind = "thrown"

\* the layout the header of the encoded block declares, for N rows in L bytes
LayoutOf(h, N, L) ==
    /\ h.n_rows = N
    /\ h.off_ts = BLOCK_HDR_SZ
    /\ h.off_px = h.off_ts + h.len_ts
    /\ h.off_sz = h.off_px + h.len_px
    /\ h.off_side = h.off_sz + h.len_sz
    /\ h.off_type = h.off_side + h.len_side
    /\ L = h.off_type + h.len_type
    /\ h.len_ts = (N * h.ts_bw + 7) \div 8
    /\ h.len_px = (N * h.px_bw + 7) \div 8
    /\ h.len_sz = 4 * N
    /\ h.len_side = (N + 7) \div 8
    /\ h.len_type = (N + 7) \div 8

\* encode_block has run on a batch of no rows
EncodedNothing == cpc \in {"encoded", "decoded"} /\ Len(in_rows) = 0

\* the part of C30 about encode_block alone
C30_EncodeLayout ==
    /\ Encoded => LayoutOf(HeaderFrom(enc_out), Len(in_rows), Len(enc_out))
    /\ EncodedNothing => enc_out = << >>

\* C30: for a batch of N >= 1 rows encode_block appends L bytes laid out as
\* header, ts, px, sz, side, type with the declared offsets and lengths, and
\* decode_block on those bytes returns L; with N = 0 it appends nothing.
C30_LayoutAndConsumedLength ==
    /\ C30_EncodeLayout
    /\ (Encoded /\ cpc = "decoded") =>
          dec_ret = [kind |-> "returned", value |-> Len(enc_out), what |-> ""]

\* C37: every block encode_block emits carries in its header the magic
\* decode_block verifies, so decode_block never rejects such a block as
\* "block magic incorrect".
C37_EncodedMagicAccepted ==
    /\ Encoded => HeaderFrom(enc_out).magic = block_magic
    /\ (Encoded /\ cpc = "decoded") => dec_ret.what # "block magic incorrect"

(***************************************************************************)
(* BlockWriterT                                                            *)
(***************************************************************************)
\* sizeof(DayFileHeader), packed
DAY_HDR_SZ == 24
\* BlockWriterOpt::block_rows, scaled down from 8192
block_rows == 2
\* BlockWriterT::SYNC_INTERVAL, scaled down from 64 << 20
SYNC_INTERVAL == 32
\* BlockWriterT::MAP_WINDOW, scaled down from 256 << 20
MAP_WINDOW == 128
\* BlockWriterT::FALLOCATE_CHUNK, scaled down from 1 << 30
FALLOCATE_CHUNK == 512
\* sysconf(_SC_PAGESIZE), scaled down from 4096
PAGE_SIZE == 16

\* the days begin_day is called with
BlockDays == {19700101, 19700102}

\* "DayFileHeader header_{}"
ZeroDayHeader ==
    [rows_total |-> 0, bytes_total |-> 0, yyyymmdd |-> 0, blocks_total |-> 0]

\* the 24 bytes of a DayFileHeader in memory
DayHeaderBytes(h) ==
    LEBytes(h.rows_total, 8) \o LEBytes(h.bytes_total, 8)
      \o LEBytes(h.yyyymmdd, 4) \o LEBytes(h.blocks_total, 4)

\* the BlockWriterT after construction
NewBlockWriter ==
    [fd_ |-> -1, path_ |-> 0, allocated_bytes_ |-> 0, curr_day_ |-> 0,
     header_ |-> ZeroDayHeader, rows_total_ |-> 0, bytes_total_ |-> 0,
     blocks_since_fsync_ |-> 0, bytes_since_sync_ |-> 0,
     map_base_ |-> NULL, map_len_ |-> 0, file_off_ |-> 0,
     buf_ |-> << >>, block_buf_ |-> << >>]

\* the block writer, its files and its history as one value; thrown is the
\* message of the exception in flight, ub a store outside the file, bclosed
\* the files close() has completed on and nobody has opened since
BCur ==
    [w |-> writer, files |-> bfiles, may_fail |-> bfail, blog |-> blog,
     bopens |-> bopens, bclosed |-> bclosed, thrown |-> "", ub |-> FALSE]

\* the bytes bs stored at offset off of a file image; a store past the end
\* of the file does not reach the file
StoreAt(bytes, off, bs) ==
    [k \in 1 .. Len(bytes) |->
       IF k - 1 >= off /\ k - 1 < off + Len(bs) THEN bs[k - off] ELSE bytes[k]]

\* ftruncate(fd, n)
Truncate(bytes, n) ==
    IF n <= Len(bytes) THEN SubSeq(bytes, 1, n)
    ELSE bytes \o Zeros(n - Len(bytes))

\* posix_fallocate(fd, 0, n)
Allocate(bytes, n) ==
    IF n <= Len(bytes) THEN bytes ELSE bytes \o Zeros(n - Len(bytes))

\* a system call fails and the function throws
Fail(s, what) == [s EXCEPT !.thrown = what, !.may_fail = @ - 1]

\* BlockWriterT::is_open
is_open(s) == s.w.fd_ >= 0

\* BlockWriterT::align_up
align_up(x, a) == ((x + (a - 1)) \div a) * a

\* BlockWriterT::open_day_file; outcome names the system call that fails
bw_open_day_file(s, yyyymmdd, outcome) ==
    IF outcome = "mkdir" THEN Fail(s, "mkdir failed")
    ELSE
    LET s1 == [s EXCEPT !.w.path_ = yyyymmdd] IN
    IF outcome = "open" THEN Fail([s1 EXCEPT !.w.fd_ = -1], "open file failed")
    ELSE
    LET old == IF yyyymmdd \in DOMAIN s1.files THEN s1.files[yyyymmdd] ELSE << >>
        first_target == DAY_HDR_SZ + MAP_WINDOW
        first_round  == align_up(first_target, FALLOCATE_CHUNK)
        s2 == [s1 EXCEPT !.files = [n \in (DOMAIN s1.files) \cup {yyyymmdd} |->
                                      IF n = yyyymmdd THEN old ELSE s1.files[n]],
                         !.bclosed = @ \ {yyyymmdd}]
    IN
    IF outcome = "fallocate"
    THEN Fail([s2 EXCEPT !.w.fd_ = -1], "posix_fallocate failed")
    ELSE
    LET init_map_len == Max2(align_up(DAY_HDR_SZ + MAP_WINDOW, PAGE_SIZE), MAP_WINDOW)
        s3 == [s2 EXCEPT !.files[yyyymmdd] = Allocate(@, first_round),
                         !.w.allocated_bytes_ = first_round]
    IN
    IF outcome = "mmap" THEN Fail([s3 EXCEPT !.w.fd_ = -1], "mmap failed")
    ELSE
    LET h == [ZeroDayHeader EXCEPT !.yyyymmdd = yyyymmdd] IN
    [s3 EXCEPT !.w.fd_ = 3,
               !.w.map_base_ = 1,
               !.w.map_len_ = init_map_len,
               !.w.header_ = h,
               !.files[yyyymmdd] = StoreAt(@, 0, DayHeaderBytes(h)),
               !.w.file_off_ = DAY_HDR_SZ,
               !.bopens[yyyymmdd] = @ + 1]

\* BlockWriterT::close_map
close_map(s) ==
    IF s.w.map_base_ # NULL
    THEN [s EXCEPT !.w.map_base_ = NULL, !.w.map_len_ = 0]
    ELSE s

\* BlockWriterT::ensure_allocated
ensure_allocated(s, required_len, outcome) ==
    IF required_len <= s.w.allocated_bytes_ THEN s
    ELSE LET rounded == align_up(required_len, FALLOCATE_CHUNK) IN
         IF outcome = "fallocate" THEN Fail(s, "posix_fallocate failed")
         ELSE [s EXCEPT !.files[s.w.path_] = Allocate(@, rounded),
                        !.w.allocated_bytes_ = rounded]

RECURSIVE GrownLen(_, _)
\* "while (new_len < min_len) new_len += MAP_WINDOW"
GrownLen(new_len, min_len) ==
    IF new_len < min_len THEN GrownLen(new_len + MAP_WINDOW, min_len) ELSE new_len

\* BlockWriterT::ensure_chunk
ensure_chunk(s, need, outcome) ==
    IF s.w.map_base_ # NULL /\ s.w.map_len_ >= s.w.file_off_ + need THEN s
    ELSE LET min_len == s.w.file_off_ + need
             s1      == ensure_allocated(s, min_len, outcome)
         IN  IF s1.thrown # "" THEN s1
             ELSE IF outcome = "mremap" THEN Fail(s1, "mremap failed")
             ELSE [s1 EXCEPT !.w.map_len_ = GrownLen(@, min_len)]

\* append_rows_as_block once the block is encoded into block_buf_
StoreBlock(s, rws, n, blk, outcome) ==
    LET s1 == ensure_chunk([s EXCEPT !.w.block_buf_ = blk], Len(blk), outcome) IN
    IF s1.thrown # "" THEN s1
    ELSE
    LET off   == s1.w.file_off_
        name  == s1.w.path_
        since == s1.w.bytes_since_sync_ + Len(blk)
    IN  [s1 EXCEPT !.files[name] = StoreAt(@, off, blk),
                   !.ub = @ \/ off + Len(blk) > Len(s1.files[name]),
                   !.w.file_off_ = @ + Len(blk),
                   !.w.rows_total_ = @ + n,
                   !.w.bytes_total_ = @ + Len(blk),
                   !.w.bytes_since_sync_ = IF since >= SYNC_INTERVAL THEN 0 ELSE since,
                   !.w.header_.blocks_total = @ + 1,
                   !.blog = Append(@, [name |-> name, off |-> off, len |-> Len(blk),
                                       n |-> n, rows |-> rws,
                                       open |-> s1.bopens[name],
                                       map_len |-> s1.w.map_len_,
                                       allocated |-> s1.w.allocated_bytes_])]

\* BlockWriterT::append_rows_as_block
append_rows_as_block(s, rws, n, outcome) ==
    StoreBlock(s, rws, n, encode_block(rws, n, << >>), outcome)

\* "buf_.clear()" unless the append threw
ClearBuf(s1) ==
    IF s1.thrown # "" THEN s1 ELSE [s1 EXCEPT !.w.buf_ = << >>]

\* BlockWriterT::flush_block
flush_block(s, outcome) ==
    IF ~ is_open(s) \/ s.w.buf_ = << >> THEN s
    ELSE ClearBuf(append_rows_as_block(s, s.w.buf_, Len(s.w.buf_), outcome))

\* close() after its flush_block
CloseFile(s1, outcome) ==
    IF s1.thrown # "" THEN s1
    ELSE
    LET s2   == close_map(s1)
        h    == [s2.w.header_ EXCEPT !.rows_total = s2.w.rows_total_,
                                     !.bytes_total = s2.w.bytes_total_]
        name == s2.w.path_
        s3   == [s2 EXCEPT !.w.header_ = h,
                           !.files[name] = Truncate(@, s2.w.file_off_),
                           !.w.allocated_bytes_ = 0]
    IN
    IF outcome = "pwrite"
    THEN Fail([s3 EXCEPT !.w.fd_ = -1], "pwrite header failed")
    ELSE [s3 EXCEPT !.files[name] = StoreAt(@, 0, DayHeaderBytes(h)),
                    !.bclosed = @ \cup {name},
                    !.w.fd_ = -1,
                    !.w.path_ = 0,
                    !.w.rows_total_ = 0,
                    !.w.bytes_total_ = 0,
                    !.w.bytes_since_sync_ = 0,
                    !.w.curr_day_ = 0,
                    !.w.buf_ = << >>,
                    !.w.map_base_ = NULL,
                    !.w.map_len_ = 0,
                    !.w.file_off_ = 0]

\* BlockWriterT::close
bw_close(s, outcome) ==
    IF ~ is_open(s) THEN s ELSE CloseFile(flush_block(s, outcome), outcome)

\* begin_day after close(): open_day_file and "curr_day_ = yyyymmdd"
OpenDay(s2, yyyymmdd, outcome) ==
    IF s2.thrown # "" THEN s2
    ELSE LET s3 == bw_open_day_file(s2, yyyymmdd, outcome) IN
         IF s3.thrown # "" THEN s3 ELSE [s3 EXCEPT !.w.curr_day_ = yyyymmdd]

\* begin_day after its flush_block
CloseDay(s1, yyyymmdd, outcome) ==
    IF s1.thrown # "" THEN s1
    ELSE OpenDay(bw_close(s1, outcome), yyyymmdd, outcome)

\* BlockWriterT::begin_day
begin_day(s, yyyymmdd, outcome) ==
    IF s.w.curr_day_ = yyyymmdd THEN s
    ELSE CloseDay(flush_block(s, outcome), yyyymmdd, outcome)

\* BlockWriterT::write_row
write_row(s, r, outcome) ==
    IF Len(s.w.buf_) + 1 >= block_rows
    THEN flush_block([s EXCEPT !.w.buf_ = Append(@, r)], outcome)
    ELSE [s EXCEPT !.w.buf_ = Append(@, r)]

\* write_block after flushing the buffered rows
AppendRows(s1, rws, n, outcome) ==
    IF s1.thrown # "" THEN s1 ELSE append_rows_as_block(s1, rws, n, outcome)

\* BlockWriterT::write_block
write_block(s, rws, n, outcome) ==
    IF n = 0 THEN s
    ELSE IF ~ is_open(s)
    THEN [s EXCEPT !.thrown = "write_block called w/o opening file"]
    ELSE AppendRows(IF s.w.buf_ # << >> THEN flush_block(s, outcome) ELSE s,
                    rws, n, outcome)

(***************************************************************************)
(* BlockReaderT                                                            *)
(***************************************************************************)
\* the inclusive date ranges a reader is constructed with
RangeChoices ==
    {[date_from |-> 0, date_to |-> 99999999],
     [date_from |-> 19700101, date_to |-> 19700101]}

\* the regular files of a directory: <base>/<product> holds the columnar
\* day files, <base>/<product>-BLOCKS the block day files
DirEntries(dir, cfs, bfs) ==
    IF dir = Product
    THEN {[dir |-> dir, stem |-> n, ext |-> "bin"] : n \in DOMAIN cfs}
    ELSE IF dir = Product \o "-BLOCKS"
    THEN {[dir |-> dir, stem |-> n, ext |-> "blocks"] : n \in DOMAIN bfs}
    ELSE {}

\* the bytes of the file at a path
FileImage(path, cfs, bfs) ==
    IF path.dir = Product /\ "raw" \in DOMAIN cfs[path.stem]
    THEN cfs[path.stem].raw
    ELSE IF path.dir = Product
    THEN SubSeq(ColHeaderBytes(cfs[path.stem].hdr) \o cfs[path.stem].body,
                1, cfs[path.stem].size)
    ELSE bfs[path.stem]

\* BlockReaderT::parse_yyyymmdd: the 8 characters that end 4 before the end
\* of the file name must all be digits, which holds for "<yyyymmdd>.bin"
\* and fails for "<yyyymmdd>.blocks"
parse_yyyymmdd(e) ==
    IF e.ext = "bin" THEN [ok |-> TRUE, val |-> e.stem]
    ELSE [ok |-> FALSE, val |-> 0]

RECURSIVE SortByDay(_)
\* std::sort by yyyymmdd
SortByDay(S) ==
    IF S = {} THEN << >>
    ELSE LET m == CHOOSE x \in S : \A y \in S : x.yyyymmdd <= y.yyyymmdd
         IN  << m >> \o SortByDay(S \ {m})

\* BlockReaderT::build_day_file_list: files_
build_day_file_list(opt, cfs, bfs) ==
    LET dir == Product
        es  == DirEntries(dir, cfs, bfs)
    IN  IF es = {} THEN << >>
        ELSE SortByDay({[yyyymmdd |-> parse_yyyymmdd(e).val, path |-> e] :
                          e \in {x \in es : /\ x.ext = "bin"
                                            /\ parse_yyyymmdd(x).ok
                                            /\ parse_yyyymmdd(x).val >= opt.date_from
                                            /\ parse_yyyymmdd(x).val <= opt.date_to}})

\* "memcpy(&hdr_, base_, sizeof(hdr_))"
DayHeaderFrom(bytes) ==
    [rows_total |-> WordOf(SubSeq(bytes, 1, 8)),
     bytes_total |-> WordOf(SubSeq(bytes, 9, 16)),
     yyyymmdd |-> WordOf(SubSeq(bytes, 17, 20)),
     blocks_total |-> WordOf(SubSeq(bytes, 21, 24))]

\* the BlockReaderT before its constructor ran
NoBlockReader ==
    [opt_ |-> [date_from |-> 0, date_to |-> 0], files_ |-> << >>, fd_ |-> -1,
     base_ |-> NULL, mapped_bytes_ |-> 0, hdr_ |-> DayHeaderFrom(Zeros(DAY_HDR_SZ)),
     rows_ |-> << >>]

\* BlockReaderT::map
br_map(r, image) ==
    IF Len(image) < DAY_HDR_SZ
    THEN [r |-> [r EXCEPT !.fd_ = -1], thrown |-> "fstat/header too small"]
    ELSE [r |-> [r EXCEPT !.fd_ = 3, !.base_ = 1, !.mapped_bytes_ = Len(image),
                          !.hdr_ = DayHeaderFrom(image)],
          thrown |-> ""]

\* BlockReaderT::unmap_
unmap_(r) ==
    [r EXCEPT !.base_ = NULL, !.fd_ = -1, !.mapped_bytes_ = 0,
              !.hdr_ = DayHeaderFrom(Zeros(DAY_HDR_SZ))]

\* "std::min<size_t>(file_begin + hdr_.bytes_total, mapped_bytes_)"
FileLimit(r) ==
    IF ULess(Word(r.mapped_bytes_ - DAY_HDR_SZ, 64), r.hdr_.bytes_total)
    THEN r.mapped_bytes_
    ELSE DAY_HDR_SZ + ToNat(r.hdr_.bytes_total)

RECURSIVE WalkBlocks(_, _, _, _)
\* one round of the while loop: d is what decode_block did at st.off
WalkStep(image, file_limit, magic, st, d) ==
    IF d.thrown # ""
    THEN [st EXCEPT !.r.rows_ = d.rows_out, !.thrown = d.thrown, !.ub = @ \/ d.ub]
    ELSE IF d.ret = 0 \/ st.off + d.ret > file_limit
    THEN [st EXCEPT !.r.rows_ = d.rows_out, !.ub = @ \/ d.ub]
    ELSE WalkBlocks(image, file_limit, magic,
           [st EXCEPT !.r.rows_ = d.rows_out, !.ub = @ \/ d.ub,
                      !.views = Append(@, [data |-> d.rows_out,
                                           n_rows |-> Len(d.rows_out),
                                           file_offset |-> st.off,
                                           yyyymmdd |-> st.r.hdr_.yyyymmdd]),
                      !.off = @ + d.ret,
                      !.count = @ + 1])

\* the while loop of visit_day_files over one mapped file; st holds off,
\* count, the reader, the callbacks made, the calls of decode_block made
\* (blk - base_ and len) and the exception in flight
WalkBlocks(image, file_limit, magic, st) ==
    IF ~ (st.off < file_limit /\ ULess(Word(st.count, 32), st.r.hdr_.blocks_total))
    THEN st
    ELSE WalkStep(image, file_limit, magic,
                  [st EXCEPT !.decoded = Append(@, [yyyymmdd |-> st.r.hdr_.yyyymmdd,
                                                    off |-> st.off,
                                                    len |-> file_limit - st.off])],
                  decode_block(SubSeq(image, st.off + 1, Len(image)),
                               file_limit - st.off, st.r.rows_, magic))

RECURSIVE VisitFrom(_, _, _, _, _)
\* the end of one round of the for loop: unmap_ and on to the next file
VisitNext(i, cfs, bfs, magic, w) ==
    IF w.thrown # "" THEN w
    ELSE VisitFrom(i + 1, cfs, bfs, magic, [w EXCEPT !.r = unmap_(w.r)])

\* one round of the for loop over the file with the bytes image
VisitFile(i, cfs, bfs, magic, st, image) ==
    LET m == br_map(st.r, image) IN
    IF m.thrown # "" THEN [st EXCEPT !.r = m.r, !.thrown = m.thrown]
    ELSE VisitNext(i, cfs, bfs, magic,
           WalkBlocks(image, FileLimit(m.r), magic,
                      [st EXCEPT !.r = [m.r EXCEPT !.rows_ = << >>],
                                 !.off = DAY_HDR_SZ, !.count = 0]))

\* BlockReaderT::visit_day_files from files_[i] on
VisitFrom(i, cfs, bfs, magic, st) ==
    IF i > Len(st.r.files_) \/ st.thrown # "" THEN st
    ELSE VisitFile(i, cfs, bfs, magic, st, FileImage(st.r.files_[i].path, cfs, bfs))

\* BlockReaderT::visit_day_files
visit_day_files(r, cfs, bfs, magic) ==
    VisitFrom(1, cfs, bfs, magic,
              [r |-> r, views |-> << >>, thrown |-> "", ub |-> FALSE,
               off |-> 0, count |-> 0, decoded |-> << >>])

(***************************************************************************)
(* The block writer driven by a caller, then a block reader over the same  *)
(* base_dir and product                                                    *)
(***************************************************************************)
\* the row of the k-th call
BRow(k) ==
    TradeRow(k * 700000, 10000 + k, 1056964608 + k, k % 2,
             IF k % 2 = 0 THEN CharL ELSE CharT)

BlockInit(p, fails) ==
    /\ writer = NewBlockWriter
    /\ bfiles = << >>
    /\ bfail = fails
    /\ blog = << >>
    /\ bopens = [d \in BlockDays |-> 0]
    /\ bclosed = {}
    /\ bcalls = 0
    /\ blast = [call |-> "none", thrown |-> "", closed |-> 0]
    /\ bhist = << >>
    /\ br = NoBlockReader
    /\ views = << >>
    /\ bpc = p

\* the system calls of the block writer that may fail now
BlockOutcomes ==
    {"ok"} \cup (IF bfail > 0
                 THEN {"mkdir", "open", "fallocate", "mmap", "mremap", "pwrite"}
                 ELSE {})

\* the outcome s of a call becomes the state; a store outside the file
\* either faults or is lost; blast.closed is the file a close() that
\* returned has closed
BInstall(s, call) ==
    /\ writer' = s.w
    /\ bfiles' = s.files
    /\ bfail' = s.may_fail
    /\ blog' = s.blog
    /\ bopens' = s.bopens
    /\ bclosed' = s.bclosed
    /\ bcalls' = bcalls + 1
    /\ blast' = [call |-> call, thrown |-> s.thrown,
                 closed |-> IF call = "close" /\ writer.fd_ >= 0 /\ s.thrown = ""
                            THEN writer.path_ ELSE 0]
    /\ \E crash \in (IF s.ub THEN BOOLEAN ELSE {FALSE}) :
         bpc' = IF crash THEN "crashed" ELSE bpc
    /\ UNCHANGED << br, views >>
    /\ UNCHANGED << wvars, cvars, rvars, pvars >>

\* BlockWriterT::begin_day
BeginDay ==
    /\ bpc = "writer"
    /\ bcalls < MaxBlockCalls
    /\ \E d \in BlockDays, outcome \in BlockOutcomes :
         /\ BInstall(begin_day(BCur, d, outcome), "begin_day")
         /\ bhist' = Append(bhist, [call |-> "begin_day", day |-> d,
                                    opening |-> bopens[d], row |-> ZeroRow])

\* BlockWriterT::write_row
WriteRow ==
    /\ bpc = "writer"
    /\ bcalls < MaxBlockCalls
    /\ \E outcome \in BlockOutcomes :
         BInstall(write_row(BCur, BRow(bcalls + 1), outcome), "write_row")
    /\ bhist' = Append(bhist, [call |-> "write_row", day |-> writer.curr_day_,
                               opening |-> IF writer.curr_day_ = 0 THEN 0
                                           ELSE bopens[writer.curr_day_],
                               row |-> BRow(bcalls + 1)])

\* BlockWriterT::write_block with an empty batch or a batch of one row
WriteBlock ==
    /\ bpc = "writer"
    /\ bcalls < MaxBlockCalls
    /\ \E n \in {0, 1}, outcome \in BlockOutcomes :
         BInstall(write_block(BCur, [i \in 1 .. n |-> BRow(bcalls + i)], n, outcome),
                  "write_block")
    /\ UNCHANGED bhist

\* BlockWriterT::write_block with a batch of one or two rows, in a run of
\* appends to the open day file
AppendBlock ==
    /\ bpc = "writer"
    /\ is_open(BCur)
    /\ Len(blog) < MaxAppends
    /\ \E n \in {1, 2} :
         BInstall(write_block(BCur, [i \in 1 .. n |-> BRow(bcalls + i)], n, "ok"),
                  "write_block")
    /\ UNCHANGED bhist

\* BlockWriterT::close
CloseWriter ==
    /\ bpc = "writer"
    /\ bcalls < MaxBlockCalls
    /\ \E outcome \in BlockOutcomes :
         BInstall(bw_close(BCur, outcome), "close")
    /\ UNCHANGED bhist

\* BlockReaderT::BlockReaderT, once the writer has closed its file
BlockReaderNew ==
    /\ bpc = "writer"
    /\ ~ is_open(BCur)
    /\ \E opt \in RangeChoices :
         br' = [NoBlockReader EXCEPT
                  !.opt_ = opt,
                  !.files_ = build_day_file_list(opt, files, bfiles)]
    /\ bpc' = "reader"
    /\ UNCHANGED << writer, bfiles, bfail, blog, bopens, bclosed, bcalls, blast,
                    bhist, views >>
    /\ UNCHANGED << wvars, cvars, rvars, pvars >>

\* what visit_day_files did becomes the state; a read outside a mapping
\* either faults or yields some byte; blast.decoded is the calls of
\* decode_block it made
VisitInstall(v) ==
    \E crash \in (IF v.ub THEN BOOLEAN ELSE {FALSE}) :
       /\ br' = v.r
       /\ views' = v.views
       /\ blast' = [call |-> "visit_day_files", thrown |-> v.thrown, closed |-> 0,
                    decoded |-> v.decoded]
       /\ bpc' = IF crash THEN "crashed" ELSE "visited"

\* BlockReaderT::visit_day_files with a callback that records its view
VisitDayFiles ==
    /\ bpc = "reader"
    /\ VisitInstall(visit_day_files(br, files, bfiles, block_magic))
    /\ UNCHANGED << writer, bfiles, bfail, blog, bopens, bclosed, bcalls, bhist >>
    /\ UNCHANGED << wvars, cvars, rvars, pvars >>

(***************************************************************************)
(* Properties of the block writer and reader                               *)
(***************************************************************************)
\* the days of the files a block reader is run over on its own
ReadDays == {19700101, 19700102, 19700103}

\* a block day file of day d holding one block of one row
GoodDayFile(d) ==
    DayHeaderBytes([rows_total |-> 1, bytes_total |-> 84, yyyymmdd |-> d,
                    blocks_total |-> 1])
      \o encode_block(<< BRow(1) >>, 1, << >>)

\* the contents a file <yyyymmdd>.bin of <base>/<product> may have: a block
\* day file, one cut to 10 bytes, one whose block has a foreign magic,
\* one with a header and no block
DayFileOf(d, kind) ==
    [kind |-> kind,
     raw  |-> IF kind = "good" THEN GoodDayFile(d)
              ELSE IF kind = "short" THEN SubSeq(GoodDayFile(d), 1, 10)
              ELSE IF kind = "bad block"
              THEN StoreAt(GoodDayFile(d), DAY_HDR_SZ, << 88 >>)
              ELSE DayHeaderBytes([ZeroDayHeader EXCEPT !.yyyymmdd = d])]

DayFileKinds == {"good", "short", "bad block", "no block"}

\* the directories <base>/<product> of such files
BlockDirectories ==
    UNION {[D -> DayFileKinds] : D \in SUBSET ReadDays}

\* the positions of blog holding a block appended to file nm
BlocksIn(nm) == {k \in DOMAIN blog : blog[k].name = nm}

RECURSIVE SumLen(_)
SumLen(S) ==
    IF S = {} THEN 0
    ELSE LET k == CHOOSE x \in S : TRUE IN blog[k].len + SumLen(S \ {k})

RECURSIVE SumRows(_)
SumRows(S) ==
    IF S = {} THEN 0
    ELSE LET k == CHOOSE x \in S : TRUE IN blog[k].n + SumRows(S \ {k})

\* file nm has the size and the header totals of the blocks ks
SizeAndTotals(nm, ks) ==
    LET h == DayHeaderFrom(bfiles[nm]) IN
    /\ Len(bfiles[nm]) = DAY_HDR_SZ + SumLen(ks)
    /\ h.rows_total = Word(SumRows(ks), 64)
    /\ h.bytes_total = Word(SumLen(ks), 64)
    /\ h.blocks_total = Word(Cardinality(ks), 32)
    /\ h.yyyymmdd = Word(nm, 32)

\* C5: when close() has returned normally, the file it closed is 24 bytes
\* plus the blocks appended to it long, and its header holds the rows,
\* bytes and number of those blocks and the day passed to begin_day.
C5_CloseSizeAndTotals ==
    (blast.call = "close" /\ blast.thrown = "" /\ blast.closed # 0) =>
       SizeAndTotals(blast.closed, BlocksIn(blast.closed))

\* what close() does establish: size and totals of the blocks appended
\* since the file was last opened
C5_SinceLastOpen ==
    (blast.call = "close" /\ blast.thrown = "" /\ blast.closed # 0) =>
       SizeAndTotals(blast.closed,
                     {k \in BlocksIn(blast.closed) :
                        blog[k].open = bopens[blast.closed]})

RECURSIVE SumViewRows(_)
SumViewRows(S) ==
    IF S = {} THEN 0
    ELSE LET i == CHOOSE x \in S : TRUE IN views[i].n_rows + SumViewRows(S \ {i})

\* C6: a reader over the writer's base_dir and product, with a date range
\* containing day d, sees the k full batches written for d (opened once,
\* closed by close()): k callbacks, k * block_rows rows, increasing offsets,
\* all carrying d.
C6_WriterToReader ==
    bpc = "visited" =>
      \A d \in bclosed :
        (/\ br.opt_.date_from <= d /\ d <= br.opt_.date_to
         /\ bopens[d] = 1
         /\ \A k \in BlocksIn(d) : blog[k].n = block_rows) =>
           LET vs == {i \in DOMAIN views : views[i].yyyymmdd = Word(d, 32)}
               k  == Cardinality(BlocksIn(d))
           IN  /\ blast.thrown = ""
               /\ Cardinality(vs) = k
               /\ SumViewRows(vs) = k * block_rows
               /\ \A i, j \in vs : i < j =>
                    views[i].file_offset < views[j].file_offset

\* this step is a call of write_row that returned with a day file open
WriteRowReturned ==
    /\ bcalls' = bcalls + 1
    /\ blast'.call = "write_row"
    /\ blast'.thrown = ""
    /\ writer.fd_ >= 0

\* the blocks this step appended
NewBlocks == {k \in DOMAIN blog' : k > Len(blog)}

\* what C26 says of one call of write_row
BatchStep ==
    WriteRowReturned =>
      /\ Len(writer'.buf_) < block_rows
      /\ \A k \in NewBlocks : blog'[k].n >= 1 /\ blog'[k].n <= block_rows
      /\ IF Len(writer.buf_) + 1 >= block_rows
         THEN /\ Cardinality(NewBlocks) = 1
              /\ \A k \in NewBlocks : blog'[k].n = block_rows
              /\ writer'.buf_ = << >>
         ELSE /\ NewBlocks = {}
              /\ Len(writer'.buf_) = Len(writer.buf_) + 1

\* C26: while a day file is open, write_row leaves fewer than block_rows
\* rows in the batch; when the batch reaches block_rows it appends exactly
\* one block of block_rows rows and empties the batch, so no block produced
\* by write_row has more than block_rows rows.
C26_Batching == [][BatchStep]_vars

\* the batch held no rows when the day file was opened
BatchStepOpenedEmpty ==
    (Len(writer.buf_) < block_rows) => BatchStep

C26_BatchingFromEmpty == [][BatchStepOpenedEmpty]_vars

RECURSIVE ViewRows(_)
\* the size fields of the rows of the views vs, in order; the k-th call of
\* the model passes a row whose size is its own
ViewRows(vs) ==
    IF vs = << >> THEN << >>
    ELSE [i \in 1 .. Len(vs[1].data) |-> vs[1].data[i].size] \o ViewRows(Tail(vs))

\* the rows the blocks of the closed day file d hold, by their size fields:
\* the file is walked from its header as visit_day_files walks it
FileRows(d) ==
    LET m == br_map(NoBlockReader, bfiles[d])
    IN  ViewRows(WalkBlocks(bfiles[d], FileLimit(m.r), block_magic,
                            [r |-> [m.r EXCEPT !.rows_ = << >>], views |-> << >>,
                             thrown |-> "", ub |-> FALSE, off |-> DAY_HDR_SZ,
                             count |-> 0, decoded |-> << >>]).views)

RECURSIVE PassedRows(_, _)
\* the rows passed to write_row while day d was the open day, in call order
PassedRows(h, d) ==
    IF h = << >> THEN << >>
    ELSE (IF h[1].call = "write_row" /\ h[1].day = d THEN << h[1].row.size >>
          ELSE << >>) \o PassedRows(Tail(h), d)

RECURSIVE IsSubSeq(_, _)
\* a is b with some elements left out
IsSubSeq(a, b) ==
    IF a = << >> THEN TRUE
    ELSE IF b = << >> THEN FALSE
    ELSE IF a[1] = b[1] THEN IsSubSeq(Tail(a), Tail(b))
    ELSE IsSubSeq(a, Tail(b))

\* the closed file of day d holds the rows passed for d, in call order, and
\* no closed file of another day holds one of them
RowsInTheirDay(d) ==
    /\ IsSubSeq(PassedRows(bhist, d), FileRows(d))
    /\ \A e \in bclosed \ {d} :
         \A i \in DOMAIN PassedRows(bhist, d), j \in DOMAIN FileRows(e) :
            PassedRows(bhist, d)[i] # FileRows(e)[j]

\* this step is begin_day(d) with d already the current day
BeginSameDay ==
    /\ Len(bhist') = Len(bhist) + 1
    /\ bhist'[Len(bhist')].call = "begin_day"
    /\ bhist'[Len(bhist')].day = writer.curr_day_

\* C27: the rows passed to write_row while day d is open are, once d's file
\* is closed, in the blocks of that file in call order and in no other
\* day's file; begin_day(d) with d already current changes nothing.
C27_RowsGoToOpenDay ==
    /\ [](\A d \in bclosed : RowsInTheirDay(d))
    /\ [][BeginSameDay => UNCHANGED << writer, bfiles >>]_vars

\* the same for the days whose file was opened once
C27_OpenedOnce ==
    /\ [](\A d \in bclosed : bopens[d] = 1 => RowsInTheirDay(d))
    /\ [][BeginSameDay => UNCHANGED << writer, bfiles >>]_vars

RECURSIVE BlogRows(_, _)
\* the rows of the blocks appended to the file of day d, from blog[k] on, in
\* the order of the appends, by their size fields
BlogRows(k, d) ==
    IF k > Len(blog) THEN << >>
    ELSE (IF blog[k].name = d
          THEN [i \in 1 .. blog[k].n |-> blog[k].rows[i].size] \o << >>
          ELSE << >>) \o BlogRows(k + 1, d)

\* a closed day file that was opened again after blocks had been appended
Reopened(d) ==
    /\ d \in bclosed
    /\ \E k \in BlocksIn(d) : blog[k].open < bopens[d]

\* C35: when begin_day(d) opens a day file that already holds blocks, the
\* blocks stay in it and the new blocks follow them, so after close() the
\* file holds all of them in order and its header totals cover them all.
C35_AppendOnlyAcrossReopens ==
    \A d \in BlockDays :
       Reopened(d) =>
          /\ FileRows(d) = BlogRows(1, d)
          /\ DayHeaderFrom(bfiles[d]).blocks_total
               = Word(Cardinality(BlocksIn(d)), 32)
          /\ DayHeaderFrom(bfiles[d]).rows_total = Word(SumRows(BlocksIn(d)), 64)
          /\ DayHeaderFrom(bfiles[d]).bytes_total = Word(SumLen(BlocksIn(d)), 64)

\* C32: at every append the bytes [file_off, file_off + block_len) copied
\* into the map lie within the mapping and within the extent reserved with
\* posix_fallocate.
C32_CopyInsideReservation ==
    \A k \in DOMAIN blog :
       /\ blog[k].off + blog[k].len <= blog[k].map_len
       /\ blog[k].off + blog[k].len <= blog[k].allocated

\* the part of C32 about the mapping alone
C32_CopyInsideMapping ==
    \A k \in DOMAIN blog : blog[k].off + blog[k].len <= blog[k].map_len

\* the days of the files a block reader walks
WalkDays == {19700101, 19700102}

\* two blocks of one row each, as append_rows_as_block lays them out
TwoBlocks ==
    encode_block(<< BRow(1) >>, 1, << >>) \o encode_block(<< BRow(2) >>, 1, << >>)

\* the length of the first of them
OneBlockLen == Len(encode_block(<< BRow(1) >>, 1, << >>))

\* a block day file of day d whose header has the totals given
WalkFile(d, n_rows, n_bytes, n_blocks, body) ==
    DayHeaderBytes([rows_total |-> n_rows, bytes_total |-> n_bytes,
                    yyyymmdd |-> d, blocks_total |-> n_blocks]) \o body

\* the contents a block day file of day d may have: one block; two blocks;
\* two blocks of which the header counts one; two blocks of which
\* bytes_total covers one; two blocks under the header open_day left before
\* the writer died; one block cut four bytes short; two blocks of which the
\* first declares its type column to start where the second block starts
WalkFileOf(d, kind) ==
    [kind |-> kind,
     raw  |-> IF kind = "good" THEN GoodDayFile(d)
              ELSE IF kind = "two blocks"
              THEN WalkFile(d, 2, Len(TwoBlocks), 2, TwoBlocks)
              ELSE IF kind = "uncounted block"
              THEN WalkFile(d, 1, Len(TwoBlocks), 1, TwoBlocks)
              ELSE IF kind = "unmeasured block"
              THEN WalkFile(d, 2, OneBlockLen, 2, TwoBlocks)
              ELSE IF kind = "crashed writer"
              THEN WalkFile(d, 0, 0, 0, TwoBlocks)
              ELSE IF kind = "cut block"
              THEN SubSeq(GoodDayFile(d), 1, Len(GoodDayFile(d)) - 4)
              ELSE StoreAt(WalkFile(d, 1, OneBlockLen, 1, TwoBlocks),
                           DAY_HDR_SZ + 68, LEBytes(OneBlockLen, 4))]

WalkFileKinds ==
    {"good", "two blocks", "uncounted block", "unmeasured block",
     "crashed writer", "cut block", "far column"}

\* the directories <base>/<product> of such files
WalkDirectories ==
    UNION {[D -> WalkFileKinds] : D \in SUBSET WalkDays}

\* the end of the block at offset off of the file image img, as its header
\* declares it
DeclaredEnd(img, off) ==
    LET h == HeaderFrom(SubSeq(img, off + 1, off + BLOCK_HDR_SZ))
    IN  off + Max2(Max2(h.off_ts + h.len_ts,
                   Max2(h.off_px + h.len_px,
                   Max2(h.off_sz + h.len_sz,
                   Max2(h.off_side + h.len_side, h.off_type + h.len_type)))),
                   BLOCK_HDR_SZ)

\* min(24 + bytes_total, file size) of the file image img
WalkLimit(img) ==
    LET b == ToNat(DayHeaderFrom(img).bytes_total)
    IN  IF DAY_HDR_SZ + b < Len(img) THEN DAY_HDR_SZ + b ELSE Len(img)

\* the callbacks visit_day_files made for the file of day d, in order
ViewsOf(d) == SelectSeq(views, LAMBDA v : v.yyyymmdd = Word(d, 32))

\* the calls of decode_block it made for that file, in order
DecodedOf(d) == SelectSeq(blast.decoded, LAMBDA c : c.yyyymmdd = Word(d, 32))

\* decode_block, called on the block at offset off, reads a byte of the
\* file image img at or after offset limit
ReadsPast(img, off, limit) ==
    decode_block(SubSeq(img, off + 1, limit), limit - off, << >>, block_magic).ub

\* what C31 says of the callbacks for the file of day d
WalkDelivers(d) ==
    LET img == files[d].raw
        vs  == ViewsOf(d)
        ds  == DecodedOf(d)
    IN  /\ vs # << >> => vs[1].file_offset = DAY_HDR_SZ
        /\ \A j, k \in DOMAIN vs : j < k => vs[j].file_offset < vs[k].file_offset
        /\ \A k \in DOMAIN vs :
              /\ vs[k].file_offset >= DAY_HDR_SZ
              /\ DeclaredEnd(img, vs[k].file_offset) <= WalkLimit(img)
        /\ Len(vs) <= ToNat(DayHeaderFrom(img).blocks_total)
        /\ Len(ds) <= ToNat(DayHeaderFrom(img).blocks_total)
        /\ \A k \in DOMAIN ds : ds[k].off >= DAY_HDR_SZ /\ ds[k].off < WalkLimit(img)

\* no call of decode_block for the file of day d reads a byte at or after
\* min(24 + bytes_total, file size)
WalkDecodesInside(d) ==
    \A k \in DOMAIN DecodedOf(d) :
       ~ ReadsPast(files[d].raw, DecodedOf(d)[k].off, WalkLimit(files[d].raw))

\* C31: for every mapped day file the callbacks have file_offset starting
\* at 24 and strictly increasing, each delivered block lies inside
\* [24, min(24 + bytes_total, file size)), there are at most blocks_total
\* callbacks, and no byte after the last counted block is decoded or
\* delivered.
C31_BlockWalk ==
    bpc = "visited" =>
       \A d \in DOMAIN files : WalkDelivers(d) /\ WalkDecodesInside(d)

\* the part of C31 about the callbacks and the blocks decode_block is
\* called on
C31_WalkDelivers ==
    bpc = "visited" => \A d \in DOMAIN files : WalkDelivers(d)

\* the callback was invoked with a block of the day file files_[i]
FileDelivered(i) ==
    \E k \in DOMAIN views : views[k].yyyymmdd = Word(br.files_[i].yyyymmdd, 32)

\* the day file files_[i] is a block day file whose block decodes
GoodFile(i) == files[br.files_[i].path.stem].kind = "good"

\* C28: a day file of the list that cannot be mapped, or one of whose
\* blocks fails to decode, does not end the pass: the day files after it in
\* the list are still visited, in order.
C28_BadFileDoesNotEndPass ==
    (bpc = "visited" /\ files # << >>) =>
       /\ \A i \in DOMAIN br.files_ : GoodFile(i) => FileDelivered(i)
       /\ \A j, k \in DOMAIN views :
            j < k => ULess(views[j].yyyymmdd, views[k].yyyymmdd)

\* what visit_day_files does: the good files before the first bad one
C28_UntilFirstBadFile ==
    (bpc = "visited" /\ files # << >>) =>
       /\ \A i \in DOMAIN br.files_ :
            (\A j \in 1 .. i :
               files[br.files_[j].path.stem].kind \in {"good", "no block"})
              => (GoodFile(i) => FileDelivered(i))
       /\ \A j, k \in DOMAIN views :
            j < k => ULess(views[j].yyyymmdd, views[k].yyyymmdd)

(***************************************************************************)
(* The columnar reader (ReaderT<L2Schema>).  File names are sequences of   *)
(* character codes; the directory <base>/<product> is a set of entries.    *)
(***************************************************************************)
\* ".bin"
DotBin == << 46, 98, 105, 110 >>

RECURSIVE Digits(_, _)
\* the n decimal digits of v as character codes
Digits(v, n) ==
    IF n = 0 THEN << >> ELSE Digits(v \div 10, n - 1) \o << 48 + (v % 10) >>

\* the name the writer gives to the file of day d
DayName(d) == Digits(d, 8) \o DotBin

RECURSIVE FillRows(_, _, _, _)
\* rows first .. first + n - 1 stored in the columns of f at indexes 0 .. n - 1
FillRows(f, offs, n, first) ==
    IF n = 0 THEN f
    ELSE LET r  == MkRow(first + n - 1, 0)
             f0 == StoreBody(f, offs[0] + (n - 1) * 8, LEBytes(r.ts_ns, 8))
             f1 == StoreBody(f0, offs[1] + (n - 1) * 4, LEBytes(r.price, 4))
             f2 == StoreBody(f1, offs[2] + (n - 1) * 4, LEBytes(r.qty, 4))
             f3 == StoreBody(f2, offs[3] + (n - 1), LEBytes(r.side, 1))
         IN  FillRows(f3, offs, n - 1, first)

\* a day file as WriterT leaves it: n rows in a file of capacity cap
WrittenFile(n, cap, first) ==
    LET colsz == [i \in Cols |-> cap * col_size(i)]
        offs  == ColOffsets(colsz)
        bytes == HEADER_SZ + SumBelow(colsz, COLS)
        h     == [magic |-> MAGIC, header_size |-> HEADER_SZ,
                  version |-> VERSION, product |-> Product,
                  hour_epoch_start |-> 0, rows |-> n,
                  capacity |-> cap, col_off |-> offs, col_sz |-> ColWidths]
    IN  FillRows([size |-> bytes, hdr |-> h, body |-> Zeros(bytes - HEADER_SZ)],
                 offs, n, first)

\* the first bytes of file f only
CutFile(f, bytes) ==
    [f EXCEPT !.size = bytes,
              !.body = IF bytes > HEADER_SZ THEN SubSeq(@, 1, bytes - HEADER_SZ)
                       ELSE << >>]

\* the entries a directory of the model is made of: day files written by
\* WriterT, files cut short, a file of another format, names that are not
\* day-file names, and a directory named like a day file
DirCandidates ==
    {[name |-> DayName(20240101), regular |-> TRUE, file |-> WrittenFile(1, 2, 1)],
     [name |-> DayName(20240102), regular |-> TRUE, file |-> WrittenFile(2, 2, 2)],
     [name |-> DayName(20240103), regular |-> TRUE, file |-> WrittenFile(1, 2, 4)],
     [name |-> DayName(20240104), regular |-> TRUE,
      file |-> CutFile(WrittenFile(1, 2, 5), ShortSize)],
     [name |-> DayName(20240105), regular |-> TRUE,
      file |-> [WrittenFile(1, 2, 6) EXCEPT !.hdr.magic = "L3COL"]],
     [name |-> DayName(20240106), regular |-> TRUE, file |-> NewFile],
     [name |-> DayName(20240107), regular |-> FALSE, file |-> NewFile],
     [name |-> Digits(2024010, 7) \o << 97 >> \o DotBin, regular |-> TRUE,
      file |-> WrittenFile(1, 2, 7)],
     [name |-> Digits(20240102, 8) \o << 46, 116, 120, 116 >>, regular |-> TRUE,
      file |-> WrittenFile(1, 2, 8)],
     [name |-> Digits(2024010, 7) \o DotBin, regular |-> TRUE,
      file |-> WrittenFile(1, 2, 9)]}

\* "!fs::exists(root)"
NoDir == [exists |-> FALSE, entries |-> {}]

\* the directories the reader is run on
Directories ==
    {NoDir} \cup {[exists |-> TRUE, entries |-> S] :
                    S \in {T \in SUBSET DirCandidates :
                             Cardinality(T) <= MaxDirEntries}}

\* the directories staged passes are run on: day files with rows, a day
\* file holding no row, and files that are cut, foreign or empty
StageDirectories ==
    {[exists |-> TRUE, entries |-> S] :
       S \in {T \in SUBSET ({[name |-> DayName(20231231), regular |-> TRUE,
                               file |-> WrittenFile(0, 2, 1)]}
                             \cup {e \in DirCandidates :
                                     /\ e.regular
                                     /\ Len(e.name) = 12
                                     /\ e.name[8] \in 49 .. 54}) :
                 Cardinality(T) <= MaxDirEntries}}

\* the regular files of a directory, by name
RegularFiles(dir) ==
    [n \in {e.name : e \in {x \in dir.entries : x.regular}} |->
        (CHOOSE e \in dir.entries : e.name = n).file]

\* ReaderOpt::date_from / date_to the model runs with
ReaderRanges ==
    {[date_from |-> 0, date_to |-> 99999999],
     [date_from |-> 20240102, date_to |-> 20240104],
     [date_from |-> 20240102, date_to |-> 20240102]}

RECURSIVE from_chars(_, _)
\* std::from_chars: the value of the leading decimal digits of cs, v the
\* value read so far
from_chars(cs, v) ==
    IF cs = << >> THEN v
    ELSE IF Head(cs) < 48 \/ Head(cs) > 57 THEN v
    ELSE from_chars(Tail(cs), 10 * v + (Head(cs) - 48))

\* "res.ec != std::errc()": no digit to read, or a value beyond uint32_t
from_chars_fails(cs) ==
    \/ cs = << >>
    \/ Head(cs) < 48 \/ Head(cs) > 57
    \/ from_chars(cs, 0) \div 65536 >= 65536

\* ReaderT::parse_yyyymmdd without the test of the eight digits
rd_parse_yyyymmdd_any_char(fname) ==
    IF Len(fname) # 12 THEN [ok |-> FALSE, out |-> 0]
    ELSE IF SubSeq(fname, 9, 12) # DotBin THEN [ok |-> FALSE, out |-> 0]
    ELSE IF from_chars_fails(SubSeq(fname, 1, 8)) THEN [ok |-> FALSE, out |-> 0]
    ELSE [ok |-> TRUE, out |-> from_chars(SubSeq(fname, 1, 8), 0)]

\* ReaderT::parse_yyyymmdd
rd_parse_yyyymmdd(fname) ==
    IF Len(fname) # 12 THEN [ok |-> FALSE, out |-> 0]
    ELSE IF SubSeq(fname, 9, 12) # DotBin THEN [ok |-> FALSE, out |-> 0]
    ELSE IF \E i \in 1 .. 8 : fname[i] < 48 \/ fname[i] > 57
    THEN [ok |-> FALSE, out |-> 0]
    ELSE IF from_chars_fails(SubSeq(fname, 1, 8)) THEN [ok |-> FALSE, out |-> 0]
    ELSE [ok |-> TRUE, out |-> from_chars(SubSeq(fname, 1, 8), 0)]

\* ReaderT::build_day_file_list: files_, days_ and paths_only_
rd_build_day_file_list(r, dir) ==
    LET kept  == {e \in dir.entries :
                    /\ e.regular
                    /\ rd_parse_yyyymmdd(e.name).ok
                    /\ ~ (rd_parse_yyyymmdd(e.name).out < r.opt_.date_from)
                    /\ ~ (rd_parse_yyyymmdd(e.name).out > r.opt_.date_to)}
        sorted == IF ~ dir.exists THEN << >>
                 ELSE SortByDay({[yyyymmdd |-> rd_parse_yyyymmdd(e.name).out,
                                  path |-> e.name] : e \in kept})
    IN  [r EXCEPT !.files_ = sorted,
                  !.days_ = [k \in DOMAIN sorted |-> sorted[k].yyyymmdd],
                  !.paths_only_ = [k \in DOMAIN sorted |-> sorted[k].path]]

\* the fields of a ReaderT before its constructor ran
NoReader ==
    [opt_ |-> [date_from |-> 0, date_to |-> 0], files_ |-> << >>,
     days_ |-> << >>, paths_only_ |-> << >>, file_idx_ |-> 0, fd_ |-> -1,
     map_ |-> << >>, map_bytes_ |-> 0, hdr_ |-> ZeroHdr,
     col_ptrs_ |-> ZeroHdr.col_off, rows_ |-> 0, mapped_ |-> FALSE]

\* Stage stage_: no slab
NoStage ==
    [slab |-> [ptr |-> NULL, len |-> 0, huge_tlb |-> FALSE], mem |-> << >>,
     cols |-> [i \in Cols |-> NullPtr], capacity_rows |-> 0]

\* what the last call on the reader returned and handed to its caller
NoReaderCall ==
    [call |-> "none", file |-> << >>, ret |-> 0, called |-> FALSE,
     rows |-> 0, col_ptrs |-> [i \in Cols |-> NullPtr], ub |-> FALSE]

\* the reader part of the state when no reader exists
ReaderInit(p, dirs, ranges) ==
    /\ rdir \in dirs
    /\ reader \in {[NoReader EXCEPT !.opt_ = o] : o \in ranges}
    /\ stage_ = NoStage
    /\ rlast = NoReaderCall
    /\ rcalls = 0
    /\ rpc = p

\* ReaderT::ReaderT
ReaderNew ==
    /\ rpc = "new"
    /\ reader' = rd_build_day_file_list(reader, rdir)
    /\ rlast' = [NoReaderCall EXCEPT !.call = "ReaderT"]
    /\ rpc' = "ready"
    /\ UNCHANGED << rdir, stage_, rcalls >>
    /\ UNCHANGED << wvars, cvars, bvars, pvars >>

(***************************************************************************)
(* The bit-packing and zig-zag functions of the codec applied on their     *)
(* own: a caller packs a sequence of values and unpacks the bytes, or      *)
(* encodes one signed value and decodes it.                                *)
(***************************************************************************)
\* the w-bit word whose low k bits are set
LowOnes(k, w) == [i \in 1 .. w |-> IF i <= k THEN 1 ELSE 0] \o << >>

\* the w-bit word with bit k - 1 and bit 0 set (k >= 1)
TopAndLow(k, w) == [i \in 1 .. w |-> IF i = k \/ i = 1 THEN 1 ELSE 0] \o << >>

\* the values below 2^bw the sequences to pack are made of
PackValues(bw, w) ==
    IF bw = 0 THEN {Word(0, w)}
    ELSE {Word(0, w), LowOnes(bw, w), TopAndLow(bw, w)}

\* the bit widths the 64-bit and the 32-bit functions are called with
Widths64 == {0, 1, 7, 8, 13, 32, 57, 58, 60, 63, 64}
Widths32 == {0, 1, 5, 8, 13, 31, 32}

\* the sequences of 1 .. MaxVals values below 2^bw
PackSeqs(bw, w) == UNION {[1 .. n -> PackValues(bw, w)] : n \in 1 .. MaxVals}

\* the calls of bitpack_u64 / bitpack_u32: n values below 2^bw
PackInputs ==
    UNION {{[kind |-> "u64", bw |-> b, xs |-> s] : s \in PackSeqs(b, 64)} :
             b \in Widths64}
    \cup
    UNION {{[kind |-> "u32", bw |-> b, xs |-> s] : s \in PackSeqs(b, 32)} :
             b \in Widths32}

\* the int32_t values zigzag_enc32 is called with: 0, 1, -1, 2, -2,
\* 12345, -12345, INT32_MAX, INT32_MIN, INT32_MIN + 1
ZigZagInputs ==
    {[kind |-> "i32", x |-> v] :
       v \in {Word(0, 32), Word(1, 32), BitNot(Word(0, 32)), Word(2, 32),
              WNeg(Word(2, 32)), Word(12345, 32), WNeg(Word(12345, 32)),
              LowOnes(31, 32), BitNot(LowOnes(31, 32)),
              WAdd(BitNot(LowOnes(31, 32)), Word(1, 32))}}

NoPackResult == [bytes |-> << >>, vals |-> << >>, crashed |-> FALSE]

\* the functions are not called
PackIdle ==
    /\ pk_in = [kind |-> "none"]
    /\ pk_out = NoPackResult
    /\ pkpc = "unused"

PackInit ==
    /\ pk_in \in PackInputs \cup ZigZagInputs
    /\ pk_out = NoPackResult
    /\ pkpc = "input"

\* "std::vector<uint8_t> out; bitpack_u64(xs, n, bw, out);"
BitPack64 ==
    /\ pkpc = "input" /\ pk_in.kind = "u64"
    /\ pk_out' = [NoPackResult EXCEPT
                    !.bytes = bitpack_u64(pk_in.xs, Len(pk_in.xs), pk_in.bw, << >>)]
    /\ pkpc' = "packed"
    /\ UNCHANGED pk_in
    /\ UNCHANGED << wvars, cvars, bvars, rvars >>

\* "std::vector<uint8_t> out; bitpack_u32(xs, n, bw, out);"
BitPack32 ==
    /\ pkpc = "input" /\ pk_in.kind = "u32"
    /\ pk_out' = [NoPackResult EXCEPT
                    !.bytes = bitpack_u32(pk_in.xs, Len(pk_in.xs), pk_in.bw, << >>)]
    /\ pkpc' = "packed"
    /\ UNCHANGED pk_in
    /\ UNCHANGED << wvars, cvars, bvars, rvars >>

\* what an unpack call left in the caller's array; undefined behaviour
\* either faults or yields the values computed
UnpackInstall(u) ==
    /\ \E crash \in (IF u.ub THEN BOOLEAN ELSE {FALSE}) :
         pk_out' = [pk_out EXCEPT !.vals = IF crash THEN << >> ELSE u.vals,
                                  !.crashed = crash]
    /\ pkpc' = "unpacked"
    /\ UNCHANGED pk_in
    /\ UNCHANGED << wvars, cvars, bvars, rvars >>

\* "bitunpack_u64(out.data(), n, bw, ys);"
BitUnpack64 ==
    /\ pkpc = "packed" /\ pk_in.kind = "u64"
    /\ UnpackInstall(bitunpack_u64(pk_out.bytes, 0, Len(pk_in.xs), pk_in.bw))

\* "bitunpack_u32(out.data(), n, bw, ys);"
BitUnpack32 ==
    /\ pkpc = "packed" /\ pk_in.kind = "u32"
    /\ UnpackInstall(bitunpack_u32(pk_out.bytes, 0, Len(pk_in.xs), pk_in.bw))

\* "y = zigzag_dec32(zigzag_enc32(x));"
ZigZag ==
    /\ pkpc = "input" /\ pk_in.kind = "i32"
    /\ pk_out' = [NoPackResult EXCEPT
                    !.vals = << zigzag_enc32(pk_in.x),
                                zigzag_dec32(zigzag_enc32(pk_in.x)) >>]
    /\ pkpc' = "decoded"
    /\ UNCHANGED pk_in
    /\ UNCHANGED << wvars, cvars, bvars, rvars >>

\* C21: unpacking the bytes bitpack produced for n >= 1 values below 2^bw
\* yields the values again, for every width up to 64 (32 for the 32-bit
\* functions); with bw = 0 nothing is emitted and the values read are zeros.
C21_BitPackRoundTrip ==
    pkpc = "unpacked" =>
      /\ ~ pk_out.crashed
      /\ pk_out.vals = pk_in.xs
      /\ pk_in.bw = 0 => pk_out.bytes = << >>

\* C22: zigzag_dec32(zigzag_enc32(x)) = x for every 32-bit x.
C22_ZigZagRoundTrip ==
    pkpc = "decoded" => pk_out.vals[2] = pk_in.x

\* INT32_MIN, whose encoding is 2^32 - 1, has been encoded and decoded
C22_Witness ==
    /\ pkpc = "decoded"
    /\ pk_in.x = BitNot(LowOnes(31, 32))
    /\ pk_out.vals[1] = BitNot(Word(0, 32))

(***************************************************************************)
(* Specifications                                                          *)
(***************************************************************************)
Next ==
    \/ Start
    \/ Enqueue
    \/ Stop
    \/ WorkerDequeue
    \/ WorkerGrow
    \/ WorkerWrite
    \/ WorkerExit
    \/ Destroy

\* the columnar writer with system calls that may fail
Init ==
    /\ WriterInit("idle", MaxFails)
    /\ CodecIdle /\ block_magic = Zeros(8)
    /\ BlockInit("unused", 0)
    /\ ReaderInit("unused", {NoDir}, {NoReader.opt_})
    /\ PackIdle

Spec == Init /\ [][Next]_vars

\* the same writer on a machine where no system call fails
InitReliable ==
    /\ WriterInit("idle", 0)
    /\ CodecIdle /\ block_magic = Zeros(8)
    /\ BlockInit("unused", 0)
    /\ ReaderInit("unused", {NoDir}, {NoReader.opt_})
    /\ PackIdle

SpecReliable == InitReliable /\ [][Next]_vars

\* the codec on its own
NextCodec ==
    \/ EncodeBlock
    \/ DecodeBlock
    \/ DecodeTruncated

InitCodec ==
    /\ WriterInit("unused", 0)
    /\ CodecInit
    /\ BlockInit("unused", 0)
    /\ ReaderInit("unused", {NoDir}, {NoReader.opt_})
    /\ PackIdle

SpecCodec == InitCodec /\ [][NextCodec]_vars

\* the block writer and reader
NextBlock ==
    \/ BeginDay
    \/ WriteRow
    \/ WriteBlock
    \/ CloseWriter
    \/ BlockReaderNew
    \/ VisitDayFiles

\* no system call of the block writer fails
InitBlock ==
    /\ WriterInit("unused", 0)
    /\ CodecIdle /\ block_magic = Zeros(8)
    /\ BlockInit("writer", 0)
    /\ ReaderInit("unused", {NoDir}, {NoReader.opt_})
    /\ PackIdle

SpecBlock == InitBlock /\ [][NextBlock]_vars

\* one day file and a run of appends to it
NextAppend ==
    \/ (BeginDay /\ bcalls = 0)
    \/ AppendBlock

SpecAppend == InitBlock /\ [][NextAppend]_vars

\* a block reader over a directory of block day files named <yyyymmdd>.bin
NextBlockRead ==
    \/ BlockReaderNew
    \/ VisitDayFiles

InitBlockRead ==
    /\ \E dir \in BlockDirectories :
         WriterInitIn("unused", 0, [d \in DOMAIN dir |-> DayFileOf(d, dir[d])])
    /\ fsync_every_rows = 0
    /\ CodecIdle /\ block_magic = Zeros(8)
    /\ BlockInit("writer", 0)
    /\ ReaderInit("unused", {NoDir}, {NoReader.opt_})
    /\ PackIdle

SpecBlockRead == InitBlockRead /\ [][NextBlockRead]_vars

\* a block reader over a directory of day files with one or two blocks
InitWalk ==
    /\ \E dir \in WalkDirectories :
         WriterInitIn("unused", 0, [d \in DOMAIN dir |-> WalkFileOf(d, dir[d])])
    /\ fsync_every_rows = 0
    /\ CodecIdle /\ block_magic = Zeros(8)
    /\ BlockInit("writer", 0)
    /\ ReaderInit("unused", {NoDir}, {NoReader.opt_})
    /\ PackIdle

SpecWalk == InitWalk /\ [][NextBlockRead]_vars

\* the bytes of file f as a mapping of it shows them
RawBytes(f) == SubSeq(ColHeaderBytes(f.hdr) \o f.body, 1, f.size)

\* ReaderT::unmap
rd_unmap(r) ==
    [r EXCEPT !.map_ = << >>, !.fd_ = -1, !.map_bytes_ = 0, !.rows_ = 0,
              !.mapped_ = FALSE]

\* ReaderT::map_file on the file named p of the files fs
rd_map_file(r, fs, p) ==
    LET u == rd_unmap(r)
        m == map_file(fs, p)
    IN  IF p \notin DOMAIN fs THEN [r |-> u, ok |-> FALSE]
        ELSE IF fs[p].size <= 0 THEN [r |-> u, ok |-> FALSE]
        ELSE IF ~ m.ok
        THEN [r |-> [u EXCEPT !.hdr_ = HeaderSeen(fs[p])], ok |-> FALSE]
        ELSE [r |-> [u EXCEPT !.fd_ = 3, !.map_ = p, !.map_bytes_ = fs[p].size,
                              !.hdr_ = HeaderSeen(fs[p]), !.rows_ = m.rows,
                              !.col_ptrs_ = m.col_off, !.mapped_ = TRUE],
              ok |-> TRUE]

\* ReaderT::visit_single_segment: the reader afterwards, the value returned,
\* whether fn was called, and the Segment it was called with
visit_single_segment(r, fs, file) ==
    LET m == rd_map_file(IF r.mapped_ THEN rd_unmap(r) ELSE r, fs, file)
    IN  IF ~ m.ok
        THEN [r |-> m.r, ret |-> 0, called |-> FALSE, rows |-> 0,
              col_ptrs |-> NoReaderCall.col_ptrs]
        ELSE [r |-> rd_unmap(m.r), ret |-> m.r.rows_, called |-> TRUE,
              rows |-> m.r.rows_,
              col_ptrs |-> [c \in Cols |-> [base |-> 2, off |-> m.r.col_ptrs_[c]]]]

\* the outcomes of the two mmap calls of HugeBuff::alloc
AllocOutcomes == {"huge", "plain", "fail"}

\* HugeBuff::alloc
HugeBuff_alloc(bytes, outcome) ==
    IF outcome = "huge"
    THEN [ptr |-> 1, len |-> ((bytes + (TWO_MB - 1)) \div TWO_MB) * TWO_MB,
          huge_tlb |-> TRUE]
    ELSE IF outcome = "plain"
    THEN [ptr |-> 1, len |-> bytes, huge_tlb |-> FALSE]
    ELSE [ptr |-> NULL, len |-> 0, huge_tlb |-> FALSE]

\* Stage::ensure
ensure(st, rows, outcome) ==
    LET colsz == [i \in Cols |-> rows * col_size(i)]
        need  == SumBelow(colsz, COLS)
        slab  == HugeBuff_alloc(need, outcome)
    IN  IF st.slab.ptr = NULL \/ st.slab.len < need
        THEN [slab |-> slab, mem |-> Zeros(slab.len),
              cols |-> [i \in Cols |-> [base |-> slab.ptr, off |-> SumBelow(colsz, i)]],
              capacity_rows |-> rows]
        ELSE st

RECURSIVE CopyCols(_, _, _, _)
\* the memcpy calls of stage_curr_file from column c on; ub when a copy
\* reads outside the mapped file or writes outside the slab
CopyCols(st, r, raw, c) ==
    IF c = COLS THEN [st |-> st, ub |-> FALSE]
    ELSE LET bytes == r.rows_ * col_size(c)
             src   == r.col_ptrs_[c]
             dst   == st.cols[c]
         IN  IF \/ dst.base = NULL
                \/ dst.off + bytes > st.slab.len
                \/ src + bytes > Len(raw)
             THEN [st |-> st, ub |-> TRUE]
             ELSE CopyCols(
                    [st EXCEPT !.mem = [k \in 1 .. Len(st.mem) |->
                        IF k > dst.off /\ k <= dst.off + bytes
                        THEN raw[src + k - dst.off] ELSE st.mem[k]]],
                    r, raw, c + 1)

\* ReaderT::stage_curr_file
stage_curr_file(r, st, fs, outcome) ==
    IF ~ r.mapped_ \/ r.rows_ = 0
    THEN [r |-> r, st |-> st, ok |-> FALSE, rows |-> 0,
          col_ptrs |-> NoReaderCall.col_ptrs, ub |-> FALSE]
    ELSE LET cp == CopyCols(ensure(st, r.rows_, outcome), r, RawBytes(fs[r.map_]), 0)
         IN  [r |-> r, st |-> cp.st, ok |-> ~ cp.ub, rows |-> r.rows_,
              col_ptrs |-> cp.st.cols, ub |-> cp.ub]

\* ReaderT::advance
advance(r, fs) ==
    IF ~ r.mapped_ THEN [r |-> r, ok |-> FALSE]
    ELSE LET u == [rd_unmap(r) EXCEPT !.file_idx_ = @ + 1]
         IN  IF u.file_idx_ >= Len(u.files_) THEN [r |-> u, ok |-> FALSE]
             ELSE rd_map_file(u, fs, u.files_[u.file_idx_ + 1].path)

\* ReaderT::first_stage_file
first_stage_file(r, st, fs, outcome) ==
    IF r.files_ = << >>
    THEN [r |-> r, st |-> st, ok |-> FALSE, rows |-> 0,
          col_ptrs |-> NoReaderCall.col_ptrs, ub |-> FALSE]
    ELSE LET m == rd_map_file([r EXCEPT !.file_idx_ = 0], fs, r.files_[1].path)
         IN  IF ~ m.ok
             THEN [r |-> m.r, st |-> st, ok |-> FALSE, rows |-> 0,
                   col_ptrs |-> NoReaderCall.col_ptrs, ub |-> FALSE]
             ELSE stage_curr_file(m.r, st, fs, outcome)

\* ReaderT::next_stage_file
next_stage_file(r, st, fs, outcome) ==
    LET a == advance(r, fs)
    IN  IF ~ a.ok
        THEN [r |-> a.r, st |-> st, ok |-> FALSE, rows |-> 0,
              col_ptrs |-> NoReaderCall.col_ptrs, ub |-> FALSE]
        ELSE stage_curr_file(a.r, st, fs, outcome)

RECURSIVE StageLoop(_, _, _, _, _)
\* the do-while loop of visit_stage_files with the Segment v just staged:
\* fn(s) returns false at call stop_at, outcomes[k] is the outcome of the
\* allocation for the k-th staged file, seen the files fn was called with
StageLoop(v, fs, outcomes, stop_at, seen) ==
    LET seen1 == Append(seen, v.r.map_)
        n     == next_stage_file(v.r, v.st, fs,
                                 IF Len(seen1) + 1 \in DOMAIN outcomes
                                 THEN outcomes[Len(seen1) + 1] ELSE "fail")
    IN  IF Len(seen1) = stop_at
        THEN [r |-> v.r, st |-> v.st, seen |-> seen1, ub |-> FALSE]
        ELSE IF ~ n.ok
        THEN [r |-> n.r, st |-> n.st, seen |-> seen1, ub |-> n.ub]
        ELSE StageLoop(n, fs, outcomes, stop_at, seen1)

\* ReaderT::visit_stage_files
visit_stage_files(r, st, fs, outcomes, stop_at) ==
    LET f == first_stage_file(r, st, fs, outcomes[1])
    IN  IF ~ f.ok THEN [r |-> f.r, st |-> f.st, seen |-> << >>, ub |-> f.ub]
        ELSE StageLoop(f, fs, outcomes, stop_at, << >>)

\* a name no entry of the directory has
MissingName == DayName(20240109)

\* a call of visit_single_segment(file, fn)
VisitSingleSegment ==
    /\ rpc = "ready"
    /\ rcalls < MaxReaderCalls
    /\ \E file \in {e.name : e \in rdir.entries} \cup {MissingName} :
         LET v == visit_single_segment(reader, RegularFiles(rdir), file)
         IN  /\ reader' = v.r
             /\ rlast' = [call |-> "visit_single_segment", file |-> file,
                          ret |-> v.ret, called |-> v.called, rows |-> v.rows,
                          col_ptrs |-> v.col_ptrs, ub |-> FALSE]
    /\ rcalls' = rcalls + 1
    /\ UNCHANGED << rdir, stage_, rpc >>
    /\ UNCHANGED << wvars, cvars, bvars, pvars >>

\* the state after a staging call that returned v
StagedInstall(name, v) ==
    /\ reader' = v.r
    /\ stage_' = v.st
    /\ rlast' = [call |-> name, file |-> v.r.map_, ret |-> v.ok, called |-> FALSE,
                 rows |-> v.rows, col_ptrs |-> v.col_ptrs, ub |-> v.ub]
    /\ rpc' \in (IF v.ub THEN {"ready", "crashed"} ELSE {"ready"})
    /\ rcalls' = rcalls + 1
    /\ UNCHANGED rdir
    /\ UNCHANGED << wvars, cvars, bvars, pvars >>

\* a call of first_stage_file(out)
FirstStageFile ==
    /\ rpc = "ready"
    /\ rcalls < MaxReaderCalls
    /\ \E outcome \in AllocOutcomes :
         StagedInstall("first_stage_file",
                       first_stage_file(reader, stage_, RegularFiles(rdir), outcome))

\* a call of next_stage_file(out)
NextStageFile ==
    /\ rpc = "ready"
    /\ rcalls < MaxReaderCalls
    /\ \E outcome \in AllocOutcomes :
         StagedInstall("next_stage_file",
                       next_stage_file(reader, stage_, RegularFiles(rdir), outcome))

\* a call of visit_stage_files(fn) with a callback that records the file it
\* is given and returns false at its stop_at-th call
VisitStageFiles ==
    /\ rpc = "ready"
    /\ rcalls < MaxReaderCalls
    /\ \E outcomes \in [1 .. MaxDirEntries -> AllocOutcomes],
          stop_at \in 1 .. (MaxDirEntries + 1) :
         LET v == visit_stage_files(reader, stage_, RegularFiles(rdir), outcomes,
                                    stop_at)
         IN  /\ reader' = v.r
             /\ stage_' = v.st
             /\ rlast' = [call |-> "visit_stage_files", seen |-> v.seen,
                          stop_at |-> stop_at, ub |-> v.ub]
             /\ rpc' \in (IF v.ub THEN {"ready", "crashed"} ELSE {"ready"})
    /\ rcalls' = rcalls + 1
    /\ UNCHANGED rdir
    /\ UNCHANGED << wvars, cvars, bvars, pvars >>

\* the file named p has a valid header and holds rows
ValidDayFile(p) ==
    LET f == RegularFiles(rdir)[p] IN
    /\ f.size >= HEADER_SZ
    /\ f.hdr.magic = MAGIC
    /\ f.hdr.rows > 0

\* the first n elements of s, all of s when it is shorter
FirstOf(s, n) == SubSeq(s, 1, IF n <= Len(s) THEN n ELSE Len(s))

\* visit_stage_files has returned and every allocation it needed succeeded
StagedPassDone ==
    /\ rlast.call = "visit_stage_files"
    /\ rpc = "ready"
    /\ ~ rlast.ub

\* C29: visit_stage_files calls fn exactly once, in ascending date order,
\* for every file of the list with a valid header and rows, until fn returns
\* false; invalid files and files with zero rows are skipped and do not
\* keep later files from being visited.
C29_StagedIterationCovers ==
    StagedPassDone =>
       rlast.seen = FirstOf(SelectSeq(reader.paths_only_, ValidDayFile),
                            rlast.stop_at)

\* the valid files at the head of the list, up to the first file that is
\* invalid or holds no rows
RECURSIVE LeadingValid(_)
LeadingValid(ps) ==
    IF ps = << >> \/ ~ ValidDayFile(ps[1]) THEN << >>
    ELSE << ps[1] >> \o LeadingValid(Tail(ps))

\* what visit_stage_files does: it stops at the first such file
C29_UntilFirstInvalid ==
    StagedPassDone =>
       rlast.seen = FirstOf(LeadingValid(reader.paths_only_), rlast.stop_at)

\* C19: a file shorter than 256 bytes, or whose first six bytes are not the
\* schema's magic, is skipped by visit_single_segment: fn is not called, 0 is
\* returned, and the reader is left unmapped.
C19_InvalidFileSkipped ==
    (/\ rlast.call = "visit_single_segment"
     /\ rlast.file \in DOMAIN RegularFiles(rdir)
     /\ \/ RegularFiles(rdir)[rlast.file].size < HEADER_SZ
        \/ SubSeq(RawBytes(RegularFiles(rdir)[rlast.file]) \o Zeros(6), 1, 6)
             # << 76, 50, 67, 79, 76, 10 >>)
    => /\ ~ rlast.called
       /\ rlast.ret = 0
       /\ ~ reader.mapped_ /\ reader.map_ = << >> /\ reader.fd_ = -1

\* the staged file of the last call, and the bytes of its column c at index j
StagedFile == RegularFiles(rdir)[rlast.file]

StagedBytes(c, j) ==
    SubSeq(stage_.mem, rlast.col_ptrs[c].off + j * col_size(c) + 1,
           rlast.col_ptrs[c].off + (j + 1) * col_size(c))

Delivered ==
    /\ rlast.call \in {"first_stage_file", "next_stage_file"}
    /\ rlast.ret = TRUE
    /\ rpc = "ready"

\* C20: every Segment delivered in staged mode holds, in column i at index
\* j < rows, the bytes of the file's column i at index j, and the staged
\* regions of two different columns do not overlap.
C20_StagedCopy ==
    Delivered =>
      /\ \A c \in Cols : \A j \in 0 .. (rlast.rows - 1) :
           StagedBytes(c, j) = SegmentCol(StagedFile, HeaderSeen(StagedFile).col_off, c, j)
      /\ \A c, d \in Cols :
           c # d => \/ rlast.col_ptrs[c].off + rlast.rows * col_size(c)
                         <= rlast.col_ptrs[d].off
                    \/ rlast.col_ptrs[d].off + rlast.rows * col_size(d)
                         <= rlast.col_ptrs[c].off


\* C18: the reader's file list holds exactly the regular files of the
\* directory named eight decimal digits and ".bin" whose date lies in
\* [date_from, date_to], in ascending order of date, and days() and paths()
\* follow that order.
C18_FileSelection ==
    rpc = "ready" =>
      LET IsDayName(n) == /\ Len(n) = 12
                          /\ \A i \in 1 .. 8 : n[i] \in 48 .. 57
                          /\ SubSeq(n, 9, 12) = DotBin
          DateOf(n)    == (n[1] - 48) * 10000000 + (n[2] - 48) * 1000000
                          + (n[3] - 48) * 100000 + (n[4] - 48) * 10000
                          + (n[5] - 48) * 1000 + (n[6] - 48) * 100
                          + (n[7] - 48) * 10 + (n[8] - 48)
          Wanted       == {e.name : e \in {x \in rdir.entries :
                             /\ x.regular
                             /\ IsDayName(x.name)
                             /\ reader.opt_.date_from <= DateOf(x.name)
                             /\ DateOf(x.name) <= reader.opt_.date_to}}
      IN  /\ {reader.paths_only_[k] : k \in DOMAIN reader.paths_only_} = Wanted
          /\ Len(reader.paths_only_) = Cardinality(Wanted)
          /\ Len(reader.days_) = Len(reader.paths_only_)
          /\ Len(reader.files_) = Len(reader.paths_only_)
          /\ \A k \in DOMAIN reader.paths_only_ :
                /\ Digits(reader.days_[k], 8) = SubSeq(reader.paths_only_[k], 1, 8)
                /\ reader.files_[k] = [yyyymmdd |-> reader.days_[k],
                                       path |-> reader.paths_only_[k]]
          /\ \A k \in 1 .. (Len(reader.days_) - 1) :
                reader.days_[k] < reader.days_[k + 1]

\* a reader with a date range of its own listing one of the two entries of
\* its directory
C18_Witness ==
    /\ rpc = "ready"
    /\ reader.opt_.date_from > 0
    /\ Len(reader.paths_only_) = 1
    /\ Cardinality(rdir.entries) = 2

\* the columnar reader
NextReader ==
    \/ ReaderNew
    \/ VisitSingleSegment
    \/ FirstStageFile
    \/ NextStageFile

InitReader ==
    /\ WriterInit("unused", 0)
    /\ CodecIdle /\ block_magic = Zeros(8)
    /\ BlockInit("unused", 0)
    /\ ReaderInit("new", Directories, ReaderRanges)
    /\ PackIdle
    /\ fsync_every_rows = 0

SpecReader == InitReader /\ [][NextReader]_vars

\* the columnar reader in staged mode, whole passes
NextStage ==
    \/ ReaderNew
    \/ VisitStageFiles

InitStage ==
    /\ WriterInit("unused", 0)
    /\ CodecIdle /\ block_magic = Zeros(8)
    /\ BlockInit("unused", 0)
    /\ ReaderInit("new", StageDirectories, ReaderRanges)
    /\ PackIdle
    /\ fsync_every_rows = 0

SpecStage == InitStage /\ [][NextStage]_vars

\* the bit functions on their own
NextBits ==
    \/ BitPack64
    \/ BitPack32
    \/ BitUnpack64
    \/ BitUnpack32
    \/ ZigZag

InitBits ==
    /\ WriterInit("unused", 0)
    /\ fsync_every_rows = 0
    /\ CodecIdle /\ block_magic = Zeros(8)
    /\ BlockInit("unused", 0)
    /\ ReaderInit("unused", {NoDir}, {NoReader.opt_})
    /\ PackInit

SpecBits == InitBits /\ [][NextBits]_vars

====